---------------------------- MODULE Spec2Model ----------------------------
(***************************************************************************)
(* A model of the Chip8-rs emulator: the zero-run RLE codec (rle.rs), the  *)
(* bit-packed framebuffer (display.rs), the keypad (keypad.rs) and the     *)
(* interpreter core with its save-state writer (cpu.rs).                   *)
(*                                                                         *)
(* Representation notes.                                                   *)
(*  - A u8 / u16 is an integer; a u32 framebuffer word is the set of its   *)
(*    set bit positions (0 = least significant), because the most          *)
(*    significant bit of a word is pixel 0 of its block and 2^31 does not  *)
(*    fit the model checker's integers.                                    *)
(*  - memory is the 65535-byte array, kept as the function from the        *)
(*    addresses of its non-zero bytes to their values.                     *)
(*  - A Rust panic (index out of range, checked arithmetic overflow) ends  *)
(*    the process: status = "panic".                                       *)
(***************************************************************************)
EXTENDS Integers, Sequences, FiniteSets, TLC

VARIABLES
    registers,   \* cpu.rs Registers: [pc, sp, i, v]
    timers,      \* cpu.rs Timers: [delay, sound]
    stack,       \* cpu.rs Chip8.stack: [0..31 -> u16]
    memory,      \* cpu.rs Chip8.memory: non-zero bytes of [u8; 0xFFFF]
    display,     \* display.rs Display: [display, width, height, scale, original_scale, beep]
    keypad,      \* keypad.rs Keypad: [keypad, new_key_pressed, last_key]
    quirks,      \* cpu.rs Quirks
    overflow_checks, \* build profile: TRUE = arithmetic overflow panics (debug)
    files,       \* the files the machine writes: [savestate, flags]
    status,      \* "running" or "panic"
    last,        \* the operation that produced this state
    hist,        \* snapshots the properties compare with: the state save_state last
                 \* wrote (Spec), the machine before each step (SpecDraw, SpecAlu)
    rle,         \* the codec harness: input, encoding, decoding result
    loop         \* cpu.rs Chip8::run: its position in the loop body, its clock
                 \* reading and its two deadlines, and counts of what it did

vars == <<registers, timers, stack, memory, display, keypad, quirks,
          overflow_checks, files, status, last, hist, rle, loop>>

--------------------------------------------------------------------------
(* Bounds of the model *)

\* longest input sequence handed to the codec
MaxLen == 4
\* longest decoding result the model represents; a longer one is "overlong"
MaxDecoded == 8
\* number of steps of a run of SpecAlu and SpecDraw
MaxHist == 5
MaxNow == 270
MaxKeyDowns == 2

\* sample byte values and sample 32-bit words (as bit sets) for the codec
ByteVals == {0, 1, 255}
WordVals == {{}, {0}, {8}, {0, 31}}

--------------------------------------------------------------------------
(* Integer helpers *)

Min(a, b) == IF a < b THEN a ELSE b

RECURSIVE Pow2(_)
Pow2(n) == IF n = 0 THEN 1 ELSE 2 * Pow2(n - 1)

\* bit k of the non-negative integer n
BitOf(n, k) == (n \div Pow2(k)) % 2

\* u32::to_le_bytes of an integer below 2^31 (a run count)
u32_to_le_bytes(n) ==
    << n % 256, (n \div 256) % 256, (n \div 65536) % 256, (n \div 16777216) % 256 >>

\* the value of bits 8j .. 8j+k-1 of the word w, as the low k bits of a byte
RECURSIVE WordBits(_, _, _)
WordBits(w, j, k) ==
    IF k = 0 THEN 0
    ELSE WordBits(w, j, k - 1) + (IF (8 * j + k - 1) \in w THEN Pow2(k - 1) ELSE 0)

\* byte j (0..3) of a 32-bit word given as its set of bit positions
WordByte(w, j) == WordBits(w, j, 8)

\* u32::to_le_bytes of a 32-bit word given as its set of bit positions
word_to_le_bytes(w) == << WordByte(w, 0), WordByte(w, 1), WordByte(w, 2), WordByte(w, 3) >>

\* u32::from_le_bytes, to a word given as its set of bit positions
word_from_le_bytes(b0, b1, b2, b3) ==
    LET b == << b0, b1, b2, b3 >>
    IN {k \in 0..31 : BitOf(b[(k \div 8) + 1], k % 8) = 1}

Zeros(n) == [k \in 1..n |-> 0]
ZeroWords(n) == [k \in 1..n |-> {}]

IsPrefix(s, t) == Len(s) <= Len(t) /\ SubSeq(t, 1, Len(s)) = s

--------------------------------------------------------------------------
(* rle.rs *)

\* encode_rle's loop with a fault: the run counter is not reset after a run
RECURSIVE encode_rle_loop_noreset(_, _, _, _)
encode_rle_loop_noreset(data, k, count, encoded) ==
    IF k > Len(data)
    THEN IF count > 0 THEN encoded \o <<0>> \o u32_to_le_bytes(count) ELSE encoded
    ELSE IF data[k] = 0
         THEN encode_rle_loop_noreset(data, k + 1, count + 1, encoded)
         ELSE encode_rle_loop_noreset(data, k + 1, count,
                  (IF count > 0 THEN encoded \o <<0>> \o u32_to_le_bytes(count) ELSE encoded)
                      \o << data[k] >>)

\* the loop of encode_rle from element k on, and the flush after it
RECURSIVE encode_rle_loop(_, _, _, _)
encode_rle_loop(data, k, count, encoded) ==
    IF k > Len(data)
    THEN IF count > 0 THEN encoded \o <<0>> \o u32_to_le_bytes(count) ELSE encoded
    ELSE IF data[k] = 0
         THEN encode_rle_loop(data, k + 1, count + 1, encoded)
         ELSE encode_rle_loop(data, k + 1, 0,
                  (IF count > 0 THEN encoded \o <<0>> \o u32_to_le_bytes(count) ELSE encoded)
                      \o << data[k] >>)

encode_rle(data) == encode_rle_loop(data, 1, 0, << >>)

\* The run length after a marker exceeds what the model represents.  The
\* four bytes are compared, not multiplied out: 255 * 2^24 does not fit.
RunTooLong(b1, b2, b3, b4, room) == b4 > 0 \/ b3 > 0 \/ b2 > 0 \/ b1 > room

\* the loop of decode_rle from the 0-based index idx on.  The result is
\* [decoded, status]: "ok" (the loop ended), "panic" (data[idx + 4] read out
\* of range), "hang" (`continue` with idx unchanged: the loop never ends),
\* "overlong" (more than MaxDecoded elements).
RECURSIVE decode_rle_loop(_, _, _)
decode_rle_loop(data, idx, decoded) ==
    IF ~(idx < Len(data)) THEN [decoded |-> decoded, status |-> "ok"]
    ELSE IF data[idx + 1] = 0
    THEN IF idx + 4 <= Len(data)
         THEN IF ~(idx + 4 < Len(data))
              THEN [decoded |-> decoded, status |-> "panic"]
              ELSE IF RunTooLong(data[idx + 2], data[idx + 3], data[idx + 4], data[idx + 5],
                                 MaxDecoded - Len(decoded))
              THEN [decoded |-> decoded, status |-> "overlong"]
              ELSE decode_rle_loop(data, idx + 5, decoded \o Zeros(data[idx + 2]))
         ELSE [decoded |-> decoded, status |-> "hang"]
    ELSE decode_rle_loop(data, idx + 1, Append(decoded, data[idx + 1]))

decode_rle(data) == decode_rle_loop(data, 0, << >>)

\* the loop of encode_rle_u32 from element k on, and the flush after it
RECURSIVE encode_rle_u32_loop(_, _, _, _)
encode_rle_u32_loop(data, k, count, encoded) ==
    IF k > Len(data)
    THEN IF count > 0 THEN encoded \o <<0>> \o u32_to_le_bytes(count) ELSE encoded
    ELSE IF data[k] = {}
         THEN encode_rle_u32_loop(data, k + 1, count + 1, encoded)
         ELSE encode_rle_u32_loop(data, k + 1, 0,
                  (IF count > 0 THEN encoded \o <<0>> \o u32_to_le_bytes(count) ELSE encoded)
                      \o word_to_le_bytes(data[k]))

encode_rle_u32(data) == encode_rle_u32_loop(data, 1, 0, << >>)

\* the loop of decode_rle_u32 from the 0-based index idx on; both `break`s
\* leave the loop with what was decoded so far
RECURSIVE decode_rle_u32_loop(_, _, _)
decode_rle_u32_loop(data, idx, decoded) ==
    IF ~(idx < Len(data)) THEN [decoded |-> decoded, status |-> "ok"]
    ELSE IF data[idx + 1] = 0
    THEN IF idx + 4 < Len(data)
         THEN IF RunTooLong(data[idx + 2], data[idx + 3], data[idx + 4], data[idx + 5],
                            MaxDecoded - Len(decoded))
              THEN [decoded |-> decoded, status |-> "overlong"]
              ELSE decode_rle_u32_loop(data, idx + 5, decoded \o ZeroWords(data[idx + 2]))
         ELSE [decoded |-> decoded, status |-> "ok"]
    ELSE IF idx + 4 <= Len(data)
    THEN decode_rle_u32_loop(data, idx + 4,
             Append(decoded, word_from_le_bytes(data[idx + 1], data[idx + 2],
                                                data[idx + 3], data[idx + 4])))
    ELSE [decoded |-> decoded, status |-> "ok"]

decode_rle_u32(data) == decode_rle_u32_loop(data, 0, << >>)

--------------------------------------------------------------------------
(* Program constants *)

\* cpu.rs:43  memory: [u8; 0xFFFF]
MemSize == 65535
\* cpu.rs:42  stack: [u16; 32]
StackSize == 32
\* cpu.rs:60  pc: 0x200, and cpu.rs:77 the program's load address
ProgramStart == 512
\* main.rs:11  Display::new(64, 32, 26)
InitialScale == 26
\* 2^16 and 2^8: the moduli of u16 and u8 arithmetic
U16Mod == 65536
U8Mod == 256

--------------------------------------------------------------------------
(* keypad.rs *)

\* the 16 key codes key_down / key_up map to a keypad index
KeyIndex ==
    [Num1 |-> 1, Num2 |-> 2, Num3 |-> 3, Num4 |-> 12,
     Q |-> 4, W |-> 5, E |-> 6, R |-> 13,
     A |-> 7, S |-> 8, D |-> 9, F |-> 14,
     Z |-> 10, X |-> 0, C |-> 11, V |-> 15]

IsMapped(key) == key \in DOMAIN KeyIndex

Keypad_new ==
    [keypad |-> [k \in 0..15 |-> FALSE], new_key_pressed |-> FALSE, last_key |-> "None"]

key_down(kp, key) ==
    IF IsMapped(key)
    THEN [keypad |-> [kp.keypad EXCEPT ![KeyIndex[key]] = TRUE],
          new_key_pressed |-> TRUE, last_key |-> key]
    ELSE [kp EXCEPT !.new_key_pressed = FALSE, !.last_key = key]

\* key_up with a fault: new_key_pressed is left as it is
key_up_keeps_flag(kp, key) ==
    LET pad == IF IsMapped(key) THEN [kp.keypad EXCEPT ![KeyIndex[key]] = FALSE]
               ELSE kp.keypad
    IN [keypad |-> pad, new_key_pressed |-> kp.new_key_pressed, last_key |-> "None"]

key_up(kp, key) ==
    LET pad == IF IsMapped(key) THEN [kp.keypad EXCEPT ![KeyIndex[key]] = FALSE]
               ELSE kp.keypad
    IN [keypad |-> pad,
        new_key_pressed |-> IF \A k \in 0..15 : ~pad[k] THEN FALSE ELSE kp.new_key_pressed,
        last_key |-> "None"]

\* check_key_down_and_reset with a fault: last_key is not reset
check_key_down_noreset(kp, key) ==
    [hit |-> kp.last_key # "None" /\ kp.last_key = key, keypad |-> kp]

\* check_key_down_and_reset: [hit, keypad]
check_key_down_and_reset(kp, key) ==
    IF kp.last_key # "None" /\ kp.last_key = key
    THEN [hit |-> TRUE, keypad |-> [kp EXCEPT !.last_key = "None"]]
    ELSE [hit |-> FALSE, keypad |-> kp]

--------------------------------------------------------------------------
(* display.rs *)

\* ((width * height) as usize + 31) / 32
NumWords(width, height) == (width * height + 31) \div 32

Display_new(width, height, scale) ==
    [display |-> ZeroWords(NumWords(width, height)), width |-> width, height |-> height,
     scale |-> scale, original_scale |-> scale, beep |-> FALSE]

\* clear with a fault: the storage is kept as it is
clear_keeps(d) == d

clear(d) == [d EXCEPT !.display = ZeroWords(NumWords(d.width, d.height))]

\* callers pass x < width and y < height, so the word index is in range
get_pixel(d, x, y) ==
    LET index == y * d.width + x
    IN IF (31 - (index % 32)) \in d.display[(index \div 32) + 1] THEN 1 ELSE 0

set_pixel(d, x, y, v) ==
    LET index == y * d.width + x
        bit == 31 - (index % 32)
    IN [d EXCEPT !.display[(index \div 32) + 1] = IF v = 1 THEN @ \cup {bit} ELSE @ \ {bit}]

set_beep(d, flag) == IF d.beep = flag THEN d ELSE [d EXCEPT !.beep = flag]

\* resize with a fault: the storage of the old resolution is kept
resize_keeps(d, new_width, new_height, new_scale) ==
    [d EXCEPT !.width = new_width, !.height = new_height, !.scale = new_scale]

resize(d, new_width, new_height, new_scale) ==
    [d EXCEPT !.width = new_width, !.height = new_height, !.scale = new_scale,
              !.display = ZeroWords(NumWords(new_width, new_height))]

\* One pass of a scroll loop: row (or column) `to` receives row (or column)
\* `from`.  The loops run in the order in which `from` still holds its old
\* content, so a pass copies old pixels.
CopyRow(d, from, to) ==
    LET src == [x \in 0..(d.width - 1) |-> get_pixel(d, x, from)]
        idx(x) == to * d.width + x
        words == (idx(0) \div 32 + 1)..(idx(d.width - 1) \div 32 + 1)
    IN [d EXCEPT !.display =
           [w \in 1..Len(d.display) |->
               IF w \notin words THEN d.display[w]
               ELSE (d.display[w] \ {31 - (idx(x) % 32) : x \in {c \in 0..(d.width - 1) : (idx(c) \div 32) + 1 = w}})
                    \cup {31 - (idx(x) % 32) : x \in {c \in 0..(d.width - 1) : (idx(c) \div 32) + 1 = w /\ src[c] = 1}}]]

ClearRow(d, y) ==
    LET idx(x) == y * d.width + x
        words == (idx(0) \div 32 + 1)..(idx(d.width - 1) \div 32 + 1)
    IN [d EXCEPT !.display =
           [w \in 1..Len(d.display) |->
               IF w \notin words THEN d.display[w]
               ELSE d.display[w] \ {31 - (idx(x) % 32) : x \in {c \in 0..(d.width - 1) : (idx(c) \div 32) + 1 = w}}]]

\* the rows that storage word w holds pixels of
RowsOfWord(d, w) ==
    {r \in (((w - 1) * 32) \div d.width)..(((w - 1) * 32 + 31) \div d.width) : r < d.height}

CopyCol(d, from, to) ==
    LET src == [y \in 0..(d.height - 1) |-> get_pixel(d, from, y)]
        idx(y) == y * d.width + to
    IN [d EXCEPT !.display =
           [w \in 1..Len(d.display) |->
               (d.display[w] \ {31 - (idx(y) % 32) : y \in {r \in RowsOfWord(d, w) : (idx(r) \div 32) + 1 = w}})
               \cup {31 - (idx(y) % 32) : y \in {r \in RowsOfWord(d, w) : (idx(r) \div 32) + 1 = w /\ src[r] = 1}}]]

ClearCol(d, x) ==
    LET idx(y) == y * d.width + x
    IN [d EXCEPT !.display =
           [w \in 1..Len(d.display) |->
               d.display[w] \ {31 - (idx(y) % 32) : y \in {r \in RowsOfWord(d, w) : (idx(r) \div 32) + 1 = w}}]]

\* The passes of a scroll loop over the rows (or columns) lo..hi, in the
\* loop's order (lo..hi lies inside the framebuffer); the range is halved
\* so that the evaluation nests with the logarithm of its length.

\* for y in lo..=hi: row y <- row y+1
RECURSIVE shift_up_rows(_, _, _)
shift_up_rows(d, lo, hi) ==
    IF hi >= d.height \/ lo > hi THEN d
    ELSE IF lo = hi THEN CopyRow(d, lo + 1, lo)
    ELSE LET mid == (lo + hi) \div 2
         IN shift_up_rows(shift_up_rows(d, lo, mid), mid + 1, hi)

\* for y in 0..height-1: row y <- row y+1; then the last row is cleared
shift_up(d) == ClearRow(shift_up_rows(d, 0, d.height - 2), d.height - 1)

\* for y in (lo..=hi).rev(): row y <- row y-1
RECURSIVE shift_down_rows(_, _, _)
shift_down_rows(d, lo, hi) ==
    IF hi >= d.height \/ lo > hi THEN d
    ELSE IF lo = hi THEN CopyRow(d, lo - 1, lo)
    ELSE LET mid == (lo + hi) \div 2
         IN shift_down_rows(shift_down_rows(d, mid + 1, hi), lo, mid)

\* shift_down with a fault: row 0 is not cleared
shift_down_noclear(d) == shift_down_rows(d, 1, d.height - 1)

\* for y in (1..height).rev(): row y <- row y-1; then row 0 is cleared
shift_down(d) == ClearRow(shift_down_rows(d, 1, d.height - 1), 0)

\* for x in lo..=hi: column x <- column x+1
RECURSIVE shift_left_cols(_, _, _)
shift_left_cols(d, lo, hi) ==
    IF hi >= d.width \/ lo > hi THEN d
    ELSE IF lo = hi THEN CopyCol(d, lo + 1, lo)
    ELSE LET mid == (lo + hi) \div 2
         IN shift_left_cols(shift_left_cols(d, lo, mid), mid + 1, hi)

\* for x in 0..width-1: column x <- column x+1; then the last column is cleared
shift_left(d) == ClearCol(shift_left_cols(d, 0, d.width - 2), d.width - 1)

\* for x in (lo..=hi).rev(): column x <- column x-1
RECURSIVE shift_right_cols(_, _, _)
shift_right_cols(d, lo, hi) ==
    IF hi >= d.width \/ lo > hi THEN d
    ELSE IF lo = hi THEN CopyCol(d, lo - 1, lo)
    ELSE LET mid == (lo + hi) \div 2
         IN shift_right_cols(shift_right_cols(d, mid + 1, hi), lo, mid)

\* for x in (1..width).rev(): column x <- column x-1; then column 0 is cleared
shift_right(d) == ClearCol(shift_right_cols(d, 1, d.width - 1), 0)

\* `for _ in 0..n { self.display.shift_xxx(); }`
RECURSIVE shift_up_n(_, _)
shift_up_n(d, n) == IF n = 0 THEN d ELSE shift_up_n(shift_up(d), n - 1)

RECURSIVE shift_down_n(_, _)
shift_down_n(d, n) == IF n = 0 THEN d ELSE shift_down_n(shift_down(d), n - 1)

RECURSIVE shift_left_n(_, _)
shift_left_n(d, n) == IF n = 0 THEN d ELSE shift_left_n(shift_left(d), n - 1)

RECURSIVE shift_right_n(_, _)
shift_right_n(d, n) == IF n = 0 THEN d ELSE shift_right_n(shift_right(d), n - 1)

--------------------------------------------------------------------------
(* cpu.rs: the machine as one record, and the helpers of the opcodes *)

Machine ==
    [registers |-> registers, timers |-> timers, stack |-> stack, memory |-> memory,
     display |-> display, keypad |-> keypad, quirks |-> quirks,
     overflow_checks |-> overflow_checks, files |-> files, status |-> status]

\* Quirks with cpu.rs:51-56's defaults
DefaultQuirks ==
    [cosmac_shift |-> FALSE, cosmac_fx1e |-> FALSE, cosmac_fx55 |-> FALSE, cosmac_bnnn |-> FALSE]

\* self.memory[a] of the in-range address a
MemRead(mem, a) == IF a \in DOMAIN mem THEN mem[a] ELSE 0

\* self.memory[a] = b of the in-range address a
MemWrite(mem, a, b) ==
    IF b = 0 THEN [x \in (DOMAIN mem) \ {a} |-> mem[x]]
    ELSE [x \in (DOMAIN mem) \cup {a} |-> IF x = a THEN b ELSE mem[x]]

\* a Rust panic: the process ends
Panic(m) == [m EXCEPT !.status = "panic"]

V(m, x) == m.registers.v[x]
SetV(m, x, val) == [m EXCEPT !.registers.v[x] = val]
SetPC(m, val) == [m EXCEPT !.registers.pc = val]
SetI(m, val) == [m EXCEPT !.registers.i = val]

\* AddPC with a fault: `pc -= k` is left out
AddPC_norewind(m, k) ==
    LET sum == m.registers.pc + k
    IN IF k < 0 THEN m
       ELSE IF sum >= U16Mod
       THEN IF m.overflow_checks THEN Panic(m) ELSE SetPC(m, sum % U16Mod)
       ELSE SetPC(m, sum)

\* `pc += k` / `pc -= k` on a u16: a debug build panics on overflow, a
\* release build wraps
AddPC(m, k) ==
    LET sum == m.registers.pc + k
    IN IF sum >= U16Mod \/ sum < 0
       THEN IF m.overflow_checks THEN Panic(m) ELSE SetPC(m, sum % U16Mod)
       ELSE SetPC(m, sum)

\* `i += k` on a u16
AddI(m, k) ==
    LET sum == m.registers.i + k
    IN IF sum >= U16Mod
       THEN IF m.overflow_checks THEN Panic(m) ELSE SetI(m, sum % U16Mod)
       ELSE SetI(m, sum)

\* bitwise operators on bytes, bit by bit
RECURSIVE Bitwise8(_, _, _, _)
Bitwise8(op, a, b, k) ==
    IF k = 8 THEN 0
    ELSE LET x == BitOf(a, k)
             y == BitOf(b, k)
             r == CASE op = "or" -> IF x + y > 0 THEN 1 ELSE 0
                    [] op = "and" -> x * y
                    [] op = "xor" -> (x + y) % 2
         IN r * Pow2(k) + Bitwise8(op, a, b, k + 1)

Or8(a, b) == Bitwise8("or", a, b, 0)
And8(a, b) == Bitwise8("and", a, b, 0)
Xor8(a, b) == Bitwise8("xor", a, b, 0)

\* decode (cpu.rs:90-100)
decode(instruction) ==
    [raw |-> instruction,
     op |-> instruction \div 4096,
     x |-> (instruction \div 256) % 16,
     y |-> (instruction \div 16) % 16,
     n |-> instruction % 16,
     nn |-> instruction % 256,
     nnn |-> instruction % 4096]

--------------------------------------------------------------------------
(* cpu.rs: sprite drawing *)

\* DrawBit with a fault: a set pixel under a sprite bit is left set (OR, not XOR)
DrawBit_or(m, row_x, y) ==
    IF get_pixel(m.display, row_x, y) = 1
    THEN SetV(m, 15, 1)
    ELSE [m EXCEPT !.display = set_pixel(m.display, row_x, y, 1)]

\* DrawBit with a fault: the collision is not reported
DrawBit_noflag(m, row_x, y) ==
    IF get_pixel(m.display, row_x, y) = 1
    THEN [m EXCEPT !.display = set_pixel(m.display, row_x, y, 0)]
    ELSE [m EXCEPT !.display = set_pixel(m.display, row_x, y, 1)]

\* the body of `if bit == 1` (cpu.rs:434-441 and 393-400)
DrawBit(m, row_x, y) ==
    IF get_pixel(m.display, row_x, y) = 1
    THEN SetV([m EXCEPT !.display = set_pixel(m.display, row_x, y, 0)], 15, 1)
    ELSE [m EXCEPT !.display = set_pixel(m.display, row_x, y, 1)]

\* DrawRowBits with a fault: a column past the right edge wraps to column 0
RECURSIVE DrawRowBits_wrap(_, _, _, _, _, _)
DrawRowBits_wrap(m, bits, nbits, row_x, y, k) ==
    IF k >= nbits THEN m
    ELSE LET col == row_x % m.display.width
             bit == BitOf(bits, nbits - 1 - k)
             m1 == IF bit = 1 THEN DrawBit(m, col, y) ELSE m
         IN DrawRowBits_wrap(m1, bits, nbits, row_x + 1, y, k + 1)

\* the inner loop `for i in 0..nbits` over one sprite row (cpu.rs:428-443
\* with nbits = 8, cpu.rs:387-402 with nbits = 16), from iteration k on
RECURSIVE DrawRowBits(_, _, _, _, _, _)
DrawRowBits(m, bits, nbits, row_x, y, k) ==
    IF k >= nbits THEN m
    ELSE IF row_x >= m.display.width THEN m
    ELSE LET bit == BitOf(bits, nbits - 1 - k)
             m1 == IF bit = 1 THEN DrawBit(m, row_x, y) ELSE m
         IN DrawRowBits(m1, bits, nbits, row_x + 1, y, k + 1)

\* the row loop of draw_sprite from iteration row on (cpu.rs:423-449)
RECURSIVE draw_sprite_rows(_, _, _, _, _)
draw_sprite_rows(m, n, x, y, row) ==
    IF row >= n THEN m
    ELSE LET sum == m.registers.i + row
             addr == sum % U16Mod
         IN IF sum >= U16Mod /\ m.overflow_checks THEN Panic(m)
            ELSE IF addr >= MemSize THEN Panic(m)
            ELSE LET m1 == DrawRowBits(m, MemRead(m.memory, addr), 8, x, y, 0)
                 IN IF y + 1 >= m.display.height THEN m1
                    ELSE draw_sprite_rows(m1, n, x, y + 1, row + 1)

\* the row loop of draw_dxy0 from iteration row on (cpu.rs:383-408)
RECURSIVE draw_dxy0_rows(_, _, _, _)
draw_dxy0_rows(m, x, y, row) ==
    IF row >= 16 THEN m
    ELSE LET addr == m.registers.i + row * 2
         IN IF addr + 1 >= MemSize THEN Panic(m)
            ELSE LET word == MemRead(m.memory, addr) * 256 + MemRead(m.memory, addr + 1)
                     m1 == DrawRowBits(m, word, 16, x, y, 0)
                 IN IF y + 1 >= m.display.height THEN m1
                    ELSE draw_dxy0_rows(m1, x, y + 1, row + 1)

draw_dxy0(m, ins) ==
    LET x == V(m, ins.x) % m.display.width
        y == V(m, ins.y) % m.display.height
    IN draw_dxy0_rows(SetV(m, 15, 0), x, y, 0)

\* `width as u8` and `height as u8` are 64/128 and 32/64: never 0
draw_sprite(m, ins) ==
    IF ins.n = 0 THEN draw_dxy0(m, ins)
    ELSE LET x == V(m, ins.x) % (m.display.width % U8Mod)
             y == V(m, ins.y) % (m.display.height % U8Mod)
         IN draw_sprite_rows(SetV(m, 15, 0), ins.n, x, y, 0)

--------------------------------------------------------------------------
(* cpu.rs: the opcodes *)

\* write_flags: flags.bin is created, then v[x..y] is sliced (a panic when
\* x > y) and written.  File errors are not modelled.
write_flags(m, x, y) ==
    IF x > y THEN Panic([m EXCEPT !.files.flags = << >>])
    ELSE [m EXCEPT !.files.flags = [k \in 1..(y - x) |-> m.registers.v[x + k - 1]]]

\* read_flags: a missing file is an error the caller drops; v[x..y] is
\* sliced (a panic when x > y); read_exact fills what the file holds
read_flags(m, x, y) ==
    IF m.files.flags = "none" THEN m
    ELSE IF x > y THEN Panic(m)
    ELSE [m EXCEPT !.registers.v =
             [r \in 0..15 |-> IF r >= x /\ r < y /\ r - x + 1 <= Len(m.files.flags)
                              THEN m.files.flags[r - x + 1] ELSE @[r]]]

\* exec_ret with a fault: an empty stack is not noticed
exec_ret_unchecked(m) ==
    LET sp == m.registers.sp
    IN [m EXCEPT !.registers.pc = IF sp \in 0..(StackSize - 1) THEN m.stack[sp] ELSE 0,
                 !.registers.sp = sp - 1]

\* 00EE
exec_ret(m) ==
    LET sp == m.registers.sp
    IN IF sp < 0 \/ sp >= StackSize THEN Panic(m)
       ELSE [m EXCEPT !.registers.pc = m.stack[sp], !.registers.sp = sp - 1]

\* exec_call with a fault: the address of the call itself is pushed
exec_call_stale(m, ins) ==
    LET sp == m.registers.sp + 1
    IN IF sp > 127 /\ m.overflow_checks THEN Panic(m)
       ELSE IF sp >= StackSize \/ sp < 0 THEN Panic([m EXCEPT !.registers.sp = sp])
       ELSE [m EXCEPT !.registers.sp = sp, !.stack[sp] = m.registers.pc - 2,
                      !.registers.pc = ins.nnn]

\* 2nnn
exec_call(m, ins) ==
    LET sp == m.registers.sp + 1
    IN IF sp > 127 /\ m.overflow_checks THEN Panic(m)
       ELSE IF sp >= StackSize \/ sp < 0 THEN Panic([m EXCEPT !.registers.sp = sp])
       ELSE [m EXCEPT !.registers.sp = sp, !.stack[sp] = m.registers.pc,
                      !.registers.pc = ins.nnn]

\* the 0x0 group (cpu.rs:105-131)
exec_0(m, ins) ==
    CASE ins.raw = 224 -> [m EXCEPT !.display = clear(m.display)]
      [] ins.raw = 238 -> exec_ret(m)
      [] ins.raw = 255 ->
            [m EXCEPT !.display = resize(m.display, 128, 64, m.display.original_scale \div 2)]
      [] ins.raw = 254 ->
            [m EXCEPT !.display = resize(m.display, 64, 32, m.display.original_scale)]
      [] ins.raw = 251 -> [m EXCEPT !.display = shift_right_n(m.display, 4)]
      [] ins.raw = 252 -> [m EXCEPT !.display = shift_left_n(m.display, 4)]
      [] ins.raw = 253 -> AddPC(m, -2)
      [] OTHER ->
            IF ins.raw - ins.n = 192
            THEN [m EXCEPT !.display = shift_down_n(m.display, ins.n)]
            ELSE IF ins.y = 13
            THEN [m EXCEPT !.display = shift_up_n(m.display, ins.n)]
            ELSE m

\* convert_with_carry: [m, value]
convert_with_carry(m, value) ==
    IF value >= 256 THEN [m |-> SetV(m, 15, 1), value |-> value % 256]
    ELSE [m |-> SetV(m, 15, 0), value |-> value]

\* 8xy4 (cpu.rs:167-171): the flag is written first, the sum second
exec_8xy4(m, ins) ==
    LET added == V(m, ins.x) + V(m, ins.y)
        c == convert_with_carry(m, added)
    IN SetV(c.m, ins.x, c.value % 256)

\* exec_8xy5 with a fault: the flag is written before the difference
exec_8xy5_flagfirst(m, ins) ==
    LET x == V(m, ins.x)
        y == V(m, ins.y)
    IN SetV(SetV(m, 15, IF x >= y THEN 1 ELSE 0), ins.x, (x - y) % 256)

\* 8xy5 (cpu.rs:173-178): the difference is written first, the flag second
exec_8xy5(m, ins) ==
    LET x == V(m, ins.x)
        y == V(m, ins.y)
    IN SetV(SetV(m, ins.x, (x - y) % 256), 15, IF x >= y THEN 1 ELSE 0)

\* exec_bnnn with a fault: the offset is Vx whatever the quirk says
exec_bnnn_vx(m, ins) == SetPC(m, ins.nnn + V(m, ins.x))

\* Bnnn (cpu.rs:213-219): nnn + v is at most 0xFFF + 0xFF
exec_bnnn(m, ins) ==
    IF m.quirks.cosmac_bnnn THEN SetPC(m, ins.nnn + V(m, 0))
    ELSE SetPC(m, ins.nnn + V(m, ins.x))

\* the 0x8 group (cpu.rs:161-206)
exec_8(m, ins) ==
    LET vx == V(m, ins.x)
        vy == V(m, ins.y)
    IN CASE ins.n = 0 -> SetV(m, ins.x, vy)
         [] ins.n = 1 -> SetV(m, ins.x, Or8(vx, vy))
         [] ins.n = 2 -> SetV(m, ins.x, And8(vx, vy))
         [] ins.n = 3 -> SetV(m, ins.x, Xor8(vx, vy))
         [] ins.n = 4 -> exec_8xy4(m, ins)
         [] ins.n = 5 -> exec_8xy5(m, ins)
         [] ins.n = 6 ->
               LET m1 == IF m.quirks.cosmac_shift THEN SetV(m, ins.x, vy) ELSE m
                   m2 == SetV(m1, 15, V(m1, ins.x) % 2)
               IN SetV(m2, ins.x, V(m2, ins.x) \div 2)
         [] ins.n = 7 -> SetV(SetV(m, ins.x, (vy - vx) % 256), 15, IF vy >= vx THEN 1 ELSE 0)
         [] ins.n = 14 ->
               LET m1 == IF m.quirks.cosmac_shift THEN SetV(m, ins.x, vy) ELSE m
                   m2 == SetV(m1, ins.x, (V(m1, ins.x) * 2) % 256)
               IN SetV(m2, 15, V(m2, ins.x) % 2)
         [] OTHER -> m

\* the 0xE group (cpu.rs:223-233): keypad[v[x]] is out of range for v[x] > 15
exec_E(m, ins) ==
    IF ins.nn = 158
    THEN IF V(m, ins.x) > 15 THEN Panic(m)
         ELSE IF m.keypad.keypad[V(m, ins.x)] THEN AddPC(m, 2) ELSE m
    ELSE IF ins.nn = 161
    THEN IF V(m, ins.x) > 15 THEN Panic(m)
         ELSE IF ~m.keypad.keypad[V(m, ins.x)] THEN AddPC(m, 2) ELSE m
    ELSE m

\* Fx1E (cpu.rs:240-250)
exec_fx1e(m, ins) ==
    LET m1 == AddI(m, V(m, ins.x))
    IN IF m1.status = "panic" THEN m1
       ELSE IF m1.registers.i > 4095
       THEN LET m2 == SetI(m1, m1.registers.i % 4095)
            IN IF ~m.quirks.cosmac_fx1e THEN SetV(m2, 15, 1) ELSE m2
       ELSE m1

\* exec_fx0a with a fault: PC is not rewound while no key was pressed
exec_fx0a_norewind(m, ins) == m

\* Fx0A (cpu.rs:252-255)
exec_fx0a(m, ins) ==
    IF ~m.keypad.new_key_pressed THEN AddPC(m, -2) ELSE m

\* exec_fx33 with a fault: the tens are not reduced to one digit
exec_fx33_tens(m, ins) ==
    LET value == V(m, ins.x)
        i == m.registers.i
    IN IF i + 2 >= MemSize THEN Panic(m)
       ELSE [m EXCEPT !.memory =
                MemWrite(MemWrite(MemWrite(m.memory, i, value \div 100),
                                  i + 1, value \div 10), i + 2, value % 10)]

\* Fx33 (cpu.rs:260-266): three indexed writes, each checked
exec_fx33(m, ins) ==
    LET value == V(m, ins.x)
        i == m.registers.i
    IN IF i >= MemSize THEN Panic(m)
       ELSE LET m1 == [m EXCEPT !.memory = MemWrite(m.memory, i, value \div 100)]
            IN IF i + 1 >= MemSize THEN Panic(m1)
               ELSE LET m2 == [m1 EXCEPT !.memory = MemWrite(m1.memory, i + 1, (value \div 10) % 10)]
                    IN IF i + 2 >= MemSize THEN Panic(m2)
                       ELSE [m2 EXCEPT !.memory = MemWrite(m2.memory, i + 2, value % 10)]

\* the loop of Fx55 from iteration k on (cpu.rs:270-272)
RECURSIVE fx55_loop(_, _, _)
fx55_loop(m, upper_bound, k) ==
    IF k >= upper_bound THEN m
    ELSE IF m.registers.i + k >= MemSize THEN Panic(m)
    ELSE fx55_loop([m EXCEPT !.memory = MemWrite(m.memory, m.registers.i + k, m.registers.v[k])],
                   upper_bound, k + 1)

\* the loop of Fx65 from iteration k on (cpu.rs:281-283)
RECURSIVE fx65_loop(_, _, _)
fx65_loop(m, upper_bound, k) ==
    IF k >= upper_bound THEN m
    ELSE IF m.registers.i + k >= MemSize THEN Panic(m)
    ELSE fx65_loop(SetV(m, k, MemRead(m.memory, m.registers.i + k)), upper_bound, k + 1)

\* exec_fx55 with a fault: I is never advanced
exec_fx55_noinc(m, ins) == fx55_loop(m, Min(ins.x + 1, 16), 0)

\* Fx55 (cpu.rs:268-277)
exec_fx55(m, ins) ==
    LET m1 == fx55_loop(m, Min(ins.x + 1, 16), 0)
    IN IF m1.status = "panic" THEN m1
       ELSE IF m.quirks.cosmac_fx55 THEN AddI(m1, ins.x + 1) ELSE m1

\* Fx65 (cpu.rs:279-288)
exec_fx65(m, ins) ==
    LET m1 == fx65_loop(m, Min(ins.x + 1, 16), 0)
    IN IF m1.status = "panic" THEN m1
       ELSE IF m.quirks.cosmac_fx55 THEN AddI(m1, ins.x + 1) ELSE m1

\* the 0xF group (cpu.rs:235-299).  The fallback's inner match on
\* raw & 0xF000 == 0 can never hold here, so every other nn is unknown().
exec_F(m, ins) ==
    CASE ins.nn = 7 -> SetV(m, ins.x, m.timers.delay)
      [] ins.nn = 21 -> [m EXCEPT !.timers.delay = V(m, ins.x)]
      [] ins.nn = 24 -> [m EXCEPT !.timers.sound = V(m, ins.x)]
      [] ins.nn = 30 -> exec_fx1e(m, ins)
      [] ins.nn = 10 -> exec_fx0a(m, ins)
      [] ins.nn = 41 -> SetI(m, V(m, ins.x) * 5)
      [] ins.nn = 48 -> SetI(m, 80 + V(m, ins.x) * 10)
      [] ins.nn = 51 -> exec_fx33(m, ins)
      [] ins.nn = 85 -> exec_fx55(m, ins)
      [] ins.nn = 101 -> exec_fx65(m, ins)
      [] ins.nn = 117 -> write_flags(m, 0, ins.x)
      [] ins.nn = 133 -> read_flags(m, 0, ins.y)
      [] OTHER -> m

\* execute (cpu.rs:103-303); rnd is the byte random::<u8>() returns
execute(m, ins, rnd) ==
    CASE ins.op = 0 -> exec_0(m, ins)
      [] ins.op = 1 -> SetPC(m, ins.nnn)
      [] ins.op = 2 -> exec_call(m, ins)
      [] ins.op = 3 -> IF V(m, ins.x) = ins.nn THEN AddPC(m, 2) ELSE m
      [] ins.op = 4 -> IF V(m, ins.x) # ins.nn THEN AddPC(m, 2) ELSE m
      [] ins.op = 5 ->
            IF ins.n = 2 THEN write_flags(m, ins.x, ins.y)
            ELSE IF ins.n = 3 THEN read_flags(m, ins.x, ins.y)
            ELSE IF V(m, ins.x) = V(m, ins.y) THEN AddPC(m, 2) ELSE m
      [] ins.op = 6 -> SetV(m, ins.x, ins.nn)
      [] ins.op = 7 -> SetV(m, ins.x, (V(m, ins.x) + ins.nn) % 256)
      [] ins.op = 8 -> exec_8(m, ins)
      [] ins.op = 9 -> IF V(m, ins.x) # V(m, ins.y) THEN AddPC(m, 2) ELSE m
      [] ins.op = 10 -> SetI(m, ins.nnn)
      [] ins.op = 11 -> exec_bnnn(m, ins)
      [] ins.op = 12 -> SetV(m, ins.x, And8(rnd, ins.nn))
      [] ins.op = 13 -> draw_sprite(m, ins)
      [] ins.op = 14 -> exec_E(m, ins)
      [] ins.op = 15 -> exec_F(m, ins)

\* the big-endian word at pc (cpu.rs:83)
FetchWord(m) ==
    MemRead(m.memory, m.registers.pc) * 256 + MemRead(m.memory, m.registers.pc + 1)

\* step (cpu.rs:463-467): fetch (both byte reads checked, pc += 2), decode,
\* execute
step(m, rnd) ==
    IF m.registers.pc + 1 >= MemSize THEN Panic(m)
    ELSE execute(AddPC(m, 2), decode(FetchWord(m)), rnd)

\* timer_tick with a fault: the delay timer is decremented without a test
timer_tick_wraps(m) ==
    LET d == (m.timers.delay - 1) % U8Mod
    IN IF m.timers.sound > 0
       THEN [m EXCEPT !.timers.delay = d, !.timers.sound = m.timers.sound - 1,
                      !.display = set_beep(m.display, TRUE)]
       ELSE [m EXCEPT !.timers.delay = d, !.display = set_beep(m.display, FALSE)]

\* the timer block of run (cpu.rs:488-498), without its deadline
timer_tick(m) ==
    LET d == IF m.timers.delay > 0 THEN m.timers.delay - 1 ELSE 0
    IN IF m.timers.sound > 0
       THEN [m EXCEPT !.timers.delay = d, !.timers.sound = m.timers.sound - 1,
                      !.display = set_beep(m.display, TRUE)]
       ELSE [m EXCEPT !.timers.delay = d, !.display = set_beep(m.display, FALSE)]

--------------------------------------------------------------------------
(* cpu.rs: the save state *)

\* u16::to_le_bytes
u16_to_le_bytes(n) == << n % 256, n \div 256 >>

\* i8::to_le_bytes: the two's complement byte
i8_to_le_bytes(n) == << (n + 256) % 256 >>

\* usize::to_le_bytes on a 64-bit target
usize_to_le_bytes(n) == u32_to_le_bytes(n) \o << 0, 0, 0, 0 >>

\* encode_rle(&self.memory) on the array memory stands for: what
\* encode_rle's loop appends from index pos on, one zero run and one
\* non-zero byte per call instead of one byte per call
RECURSIVE encode_rle_memory(_, _, _)
encode_rle_memory(mem, pos, encoded) ==
    LET later == {a \in DOMAIN mem : a >= pos}
    IN IF later = {}
       THEN IF MemSize - pos > 0
            THEN encoded \o <<0>> \o u32_to_le_bytes(MemSize - pos) ELSE encoded
       ELSE LET a == CHOOSE b \in later : \A c \in later : b <= c
                run == IF a - pos > 0 THEN <<0>> \o u32_to_le_bytes(a - pos) ELSE << >>
            IN encode_rle_memory(mem, a + 1, encoded \o run \o << mem[a] >>)

\* encode_rle_u32(&self.display.display) on the framebuffer: what
\* encode_rle_u32's loop appends from the 1-based index pos on, one zero
\* run and one non-zero word per call instead of one word per call
RECURSIVE encode_rle_display(_, _, _)
encode_rle_display(words, pos, encoded) ==
    LET later == {k \in pos..Len(words) : words[k] # {}}
    IN IF later = {}
       THEN IF Len(words) + 1 - pos > 0
            THEN encoded \o <<0>> \o u32_to_le_bytes(Len(words) + 1 - pos) ELSE encoded
       ELSE LET a == CHOOSE b \in later : \A c \in later : b <= c
                run == IF a - pos > 0 THEN <<0>> \o u32_to_le_bytes(a - pos) ELSE << >>
            IN encode_rle_display(words, a + 1, encoded \o run \o word_to_le_bytes(words[a]))

\* the loop `for &num in &self.stack` (cpu.rs:337-339)
RECURSIVE StackBytes(_, _)
StackBytes(stk, k) ==
    IF k >= StackSize THEN << >> ELSE u16_to_le_bytes(stk[k]) \o StackBytes(stk, k + 1)

\* save_state (cpu.rs:321-354): the bytes written to the file
save_state(m) ==
    << 72, 69, 65, 68 >> \o << 1, 0, 0 >>
    \o << 82, 69, 71, 83 >>
    \o [k \in 1..16 |-> m.registers.v[k - 1]]
    \o u16_to_le_bytes(m.registers.i)
    \o u16_to_le_bytes(m.registers.pc)
    \o i8_to_le_bytes(m.registers.sp)
    \o << 84, 73, 77, 69 >> \o << m.timers.delay >> \o << m.timers.sound >>
    \o << 83, 84, 67, 75 >> \o StackBytes(m.stack, 0)
    \o << 82, 77, 69, 77 >> \o encode_rle_memory(m.memory, 0, << >>)
    \o << 68, 73, 83, 80 >>
    \o u16_to_le_bytes(m.display.width)
    \o u16_to_le_bytes(m.display.height)
    \o usize_to_le_bytes(Len(m.display.display))
    \o encode_rle_display(m.display.display, 1, << >>)

\* load_state (cpu.rs:357-359): the body is `Ok(())`
load_state(m, file) == m

--------------------------------------------------------------------------
(* The actions: one per operation of the machine *)

\* the bytes random::<u8>() is modelled to return
RandVals == {0, 255}

\* the key codes of the modelled events: two keypad keys and the save key
KeyEvents == {"Num1", "Q", "KpPeriod"}

\* what a save state holds: registers, timers, stack, memory and framebuffer
Core(m) ==
    [registers |-> m.registers, timers |-> m.timers, stack |-> m.stack, memory |-> m.memory,
     width |-> m.display.width, height |-> m.display.height, display |-> m.display.display]

SetMachine(m) ==
    /\ registers' = m.registers
    /\ timers' = m.timers
    /\ stack' = m.stack
    /\ memory' = m.memory
    /\ display' = m.display
    /\ keypad' = m.keypad
    /\ quirks' = m.quirks
    /\ overflow_checks' = m.overflow_checks
    /\ files' = m.files
    /\ status' = m.status

\* Chip8::step
Step ==
    /\ status = "running"
    /\ \E rnd \in RandVals : SetMachine(step(Machine, rnd))
    /\ last' = [op |-> "step", pc |-> registers.pc, raw |-> FetchWord(Machine)]
    /\ UNCHANGED <<hist, rle, loop>>

\* the timer block of Chip8::run
TimerTick ==
    /\ status = "running"
    /\ SetMachine(timer_tick(Machine))
    /\ UNCHANGED <<last, hist, rle, loop>>

\* Keypad::key_down, called by Display::event_loop
KeyDown(key) ==
    /\ status = "running"
    /\ keypad' = key_down(keypad, key)
    /\ last' = [op |-> "key_down", pc |-> registers.pc, raw |-> 0]
    /\ UNCHANGED <<registers, timers, stack, memory, display, quirks, overflow_checks,
                   files, status, hist, rle, loop>>

\* Keypad::key_up, called by Display::event_loop
KeyUp(key) ==
    /\ status = "running"
    /\ keypad' = key_up(keypad, key)
    /\ UNCHANGED <<registers, timers, stack, memory, display, quirks, overflow_checks,
                   files, status, last, hist, rle, loop>>

\* Chip8::save_state("savestate.sav")
SaveState ==
    /\ status = "running"
    /\ files' = [files EXCEPT !.savestate = save_state(Machine)]
    /\ last' = [op |-> "save", pc |-> registers.pc, raw |-> 0]
    /\ hist' = << Core(Machine) >>
    /\ UNCHANGED <<registers, timers, stack, memory, display, keypad, quirks,
                   overflow_checks, status, rle, loop>>

\* Chip8::load_state("savestate.sav")
LoadState ==
    /\ status = "running"
    /\ SetMachine(load_state(Machine, files.savestate))
    /\ last' = [op |-> "load", pc |-> registers.pc, raw |-> 0]
    /\ UNCHANGED <<hist, rle, loop>>

--------------------------------------------------------------------------
(* Spec: the machine of main.rs running one of a few short programs *)

\* the memory image of a program: 16-bit words from ProgramStart on
ProgramImage(words) ==
    LET byte(a) == LET w == words[((a - ProgramStart) \div 2) + 1]
                   IN IF (a - ProgramStart) % 2 = 0 THEN w \div 256 ELSE w % 256
        addrs == {a \in ProgramStart..(ProgramStart + 2 * Len(words) - 1) : byte(a) # 0}
    IN [a \in addrs |-> byte(a)]

\* F10A; 6112; F20A; 1206 (jump to itself): two key waits
ProgKeyWait == << 61706, 24850, 61962, 4614 >>
\* 6001; F015; F018; A20C; D015; 120A (jump to itself); sprite FF 81 81 81 FF
\* at 0x20C: timers and a draw
ProgDraw == << 24577, 61461, 61464, 41484, 53269, 4618, 65409, 33153, 65280 >>
\* F10A; F20A; 1204 (jump to itself): two key waits in a row
ProgTwoWaits == << 61706, 61962, 4612 >>
Programs == {ProgKeyWait, ProgDraw, ProgTwoWaits}

NoLast == [op |-> "none", pc |-> 0, raw |-> 0]
NoRle == [kind |-> "none", src |-> << >>, enc |-> << >>, cut |-> 0, stage |-> "none",
          out |-> [decoded |-> << >>, status |-> "none"]]
\* Chip8::run has not been entered
NoLoop == [pos |-> "none", now |-> 0, start |-> 0, last_cpu_tick |-> 0, last_timer_tick |-> 0,
           steps |-> 0, ticks |-> 0, save_downs |-> 0, load_downs |-> 0,
           save_since |-> 0, load_since |-> 0, saves |-> 0, loads |-> 0]

\* the registers Chip8::new sets (cpu.rs:59-64)
InitRegisters == [pc |-> ProgramStart, sp |-> -1, i |-> 0, v |-> [r \in 0..15 |-> 0]]

\* Chip8::new (cpu.rs:50-79) with Some(q) for the quirks, but for the
\* registers and the display
InitRestWith(image, q) ==
    /\ timers = [delay |-> 0, sound |-> 0]
    /\ stack = [k \in 0..(StackSize - 1) |-> 0]
    /\ memory = image
    /\ keypad = Keypad_new
    /\ quirks = q
    /\ files = [savestate |-> "none", flags |-> "none"]
    /\ status = "running"

\* Chip8::new with None for the quirks
InitRest(image) == InitRestWith(image, DefaultQuirks)

\* Chip8::new on main.rs's Display::new(64, 32, 26)
InitMachine(prog) ==
    /\ registers = InitRegisters
    /\ display = Display_new(64, 32, InitialScale)
    /\ InitRest(ProgramImage(prog))

Init ==
    /\ \E prog \in Programs : InitMachine(prog)
    /\ overflow_checks \in BOOLEAN
    /\ last = NoLast
    /\ hist = << >>
    /\ rle = NoRle
    /\ loop = NoLoop

Next ==
    \/ Step
    \/ TimerTick
    \/ \E key \in KeyEvents : KeyDown(key)
    \/ \E key \in KeyEvents : KeyUp(key)
    \/ SaveState
    \/ LoadState

Spec == Init /\ [][Next]_vars

--------------------------------------------------------------------------
(* Properties of Spec *)

\* the word is an Fx0A instruction
IsFx0A(word) == decode(word).op = 15 /\ decode(word).nn = 10

\* C1: a step that executes Fx0A while new_key_pressed is false leaves the
\* registers (PC included), memory, stack and framebuffer unchanged, so the
\* next step executes the same Fx0A; a step that executes Fx0A while the
\* flag is true leaves PC at the Fx0A's address + 2.
C1_KeyWaitStallsUntilKey ==
    [][ (Step /\ IsFx0A(FetchWord(Machine))) =>
            IF ~keypad.new_key_pressed
            THEN /\ registers' = registers
                 /\ memory' = memory
                 /\ stack' = stack
                 /\ display' = display
                 /\ status' = "running"
                 /\ IsFx0A(FetchWord(Machine)')
            ELSE /\ registers'.pc = registers.pc + 2
                 /\ status' = "running" ]_vars

\* C1 witness: the first wait (at 0x200) was passed after a key press, the
\* 6112 after it ran, and the last step stalled at the second wait (0x204)
C1_Witness ==
    /\ last = [op |-> "step", pc |-> 516, raw |-> 61962]
    /\ registers.pc = 516
    /\ registers.v[1] = 18
    /\ ~keypad.new_key_pressed

\* C5 (as claimed): once load_state has run after a save_state, the
\* registers, timers, stack, memory and framebuffer are those save_state
\* wrote.
C5_LoadRestoresSavedState ==
    (last.op = "load" /\ hist # << >>) => Core(Machine) = hist[1]

--------------------------------------------------------------------------
(* SpecRle: the codec applied to every short sequence over the sample values *)

ByteSeqs == UNION {[1..n -> ByteVals] : n \in 0..MaxLen}
WordSeqs == UNION {[1..n -> WordVals] : n \in 0..MaxLen}

RleEncodeOf(kind, src) == IF kind = "u8" THEN encode_rle(src) ELSE encode_rle_u32(src)
RleDecodeOf(kind, data) == IF kind = "u8" THEN decode_rle(data) ELSE decode_rle_u32(data)

\* the sequence ends with a zero, so its encoding ends with a run marker
\* and the marker's four length bytes
EndsWithZeroRun(kind, src) ==
    Len(src) > 0 /\ src[Len(src)] = (IF kind = "u8" THEN 0 ELSE {})

InitRle ==
    /\ InitMachine(<< >>)
    /\ overflow_checks = FALSE
    /\ last = NoLast
    /\ hist = << >>
    /\ loop = NoLoop
    /\ \E kind \in {"u8", "u32"} :
         \E src \in (IF kind = "u8" THEN ByteSeqs ELSE WordSeqs) :
            rle = [NoRle EXCEPT !.kind = kind, !.src = src, !.stage = "src"]

MachineUnchanged ==
    UNCHANGED <<registers, timers, stack, memory, display, keypad, quirks,
                overflow_checks, files, status, last, hist, loop>>

\* encode_rle / encode_rle_u32 on the input
RleEncode ==
    /\ rle.stage = "src"
    /\ rle' = [rle EXCEPT !.enc = RleEncodeOf(rle.kind, rle.src), !.stage = "enc"]
    /\ MachineUnchanged

\* the final run marker keeps `kept` (0..3) of its four length bytes
RleTruncate(kept) ==
    /\ rle.stage = "enc"
    /\ EndsWithZeroRun(rle.kind, rle.src)
    /\ rle' = [rle EXCEPT !.enc = SubSeq(rle.enc, 1, Len(rle.enc) - 4 + kept),
                          !.cut = 4 - kept, !.stage = "cut"]
    /\ MachineUnchanged

\* decode_rle / decode_rle_u32 on the (possibly truncated) encoding
RleDecode ==
    /\ rle.stage \in {"enc", "cut"}
    /\ rle' = [rle EXCEPT !.out = RleDecodeOf(rle.kind, rle.enc), !.stage = "dec"]
    /\ MachineUnchanged

NextRle ==
    \/ RleEncode
    \/ \E kept \in 0..3 : RleTruncate(kept)
    \/ RleDecode

SpecRle == InitRle /\ [][NextRle]_vars

\* C2: for every byte sequence S, decode_rle(encode_rle(S)) returns S.
C2_ByteRoundTrip ==
    (rle.kind = "u8" /\ rle.stage = "dec" /\ rle.cut = 0)
        => rle.out = [decoded |-> rle.src, status |-> "ok"]

\* C2 witness: a decoded mixed sequence with a zero run at its start and a
\* longer one at its end
C2_Witness ==
    /\ rle.kind = "u8" /\ rle.stage = "dec" /\ rle.cut = 0
    /\ rle.src = << 0, 255, 0, 0 >>
    /\ rle.enc = << 0, 1, 0, 0, 0, 255, 0, 2, 0, 0, 0 >>

\* C3 (as claimed): for every sequence S of 32-bit words,
\* decode_rle_u32(encode_rle_u32(S)) returns S.
C3_WordRoundTrip ==
    (rle.kind = "u32" /\ rle.stage = "dec" /\ rle.cut = 0)
        => rle.out = [decoded |-> rle.src, status |-> "ok"]

\* C4 (as claimed): decoding an encoding whose final run marker lost 1 to 4
\* of its length bytes ends, reads nothing out of range, and returns a
\* prefix of what the whole encoding decodes to.
C4_TruncatedMarkerDecodes ==
    (rle.stage = "dec" /\ rle.cut > 0)
        => /\ rle.out.status = "ok"
           /\ IsPrefix(rle.out.decoded,
                       RleDecodeOf(rle.kind, RleEncodeOf(rle.kind, rle.src)).decoded)

--------------------------------------------------------------------------
(* SpecAlu and SpecDraw: a few steps from states a program can set up,     *)
(* with the machine before each step kept in hist                          *)

\* Chip8::step, the machine before it recorded
StepRecorded ==
    /\ status = "running"
    /\ Len(hist) < MaxHist
    /\ \E rnd \in RandVals : SetMachine(step(Machine, rnd))
    /\ last' = [op |-> "step", pc |-> registers.pc, raw |-> FetchWord(Machine)]
    /\ hist' = Append(hist, Machine)
    /\ UNCHANGED <<rle, loop>>

\* the machine after k recorded steps (k <= Len(hist))
After(k) == IF Len(hist) > k THEN hist[k + 1] ELSE Machine

\* the instruction the k-th recorded step executed
InsOf(k) == decode(FetchWord(hist[k]))

\* register values of the arithmetic runs: both ends, the sign bit's
\* neighbours, and small values
AluVals == {0, 1, 127, 128, 255}

\* 8014, 8104, 8004, 8F14, 80F4, 8FF4 and 8015, 8105, 8005, 8F15, 80F5,
\* 8FF5: 8xy4 and 8xy5 with x and y among 0, 1 and F
AluInstrs == {32788, 33028, 32772, 36628, 33012, 36852,
              32789, 33029, 32773, 36629, 33013, 36853}

\* the state after 60aa 61bb 6Fcc and a jump to the instruction, which a
\* jump to itself (1202) follows
InitAlu ==
    /\ \E w \in AluInstrs : InitRest(ProgramImage(<< w, 4610 >>))
    /\ \E a \in AluVals, b \in AluVals, c \in AluVals :
         registers = [InitRegisters EXCEPT
                         !.v = [r \in 0..15 |-> CASE r = 0 -> a [] r = 1 -> b [] r = 15 -> c
                                                  [] OTHER -> 0]]
    /\ display = Display_new(64, 32, InitialScale)
    /\ overflow_checks \in BOOLEAN
    /\ last = NoLast
    /\ hist = << >>
    /\ rle = NoRle
    /\ loop = NoLoop

NextAlu == StepRecorded

SpecAlu == InitAlu /\ [][NextAlu]_vars

\* C10 (as claimed): after 8xy4, VF = 1 if old Vx + old Vy > 255 and 0
\* otherwise, for every x and y; for x # F the new Vx is the sum mod 256.
C10_AddSetsCarry ==
    (Len(hist) >= 1 /\ InsOf(1).op = 8 /\ InsOf(1).n = 4) =>
        LET ins == InsOf(1)
            sum == V(hist[1], ins.x) + V(hist[1], ins.y)
        IN /\ V(After(1), 15) = (IF sum > 255 THEN 1 ELSE 0)
           /\ (ins.x # 15 => V(After(1), ins.x) = sum % 256)

--------------------------------------------------------------------------
(* SpecDraw: a display mode, a background draw, the same draw twice, and   *)
(* a clear, with the machine before each step kept in hist                 *)

\* the address Annn leaves in I, and the two sprites stored there
SpriteAddr == 768
SpriteBox == << 255, 129, 129, 129, 255 >>
SpriteMixed == [k \in 1..32 |-> CASE k % 4 = 1 -> 170 [] k % 4 = 2 -> 85
                                  [] k % 4 = 3 -> 255 [] OTHER -> 1]
Sprites == {SpriteBox, SpriteMixed}

\* the bytes of a sprite in memory, as read_to_memory leaves them when the
\* program file holds the sprite at offset 0x100
SpriteImage(bytes) ==
    [a \in {SpriteAddr + k - 1 : k \in {j \in 1..Len(bytes) : bytes[j] # 0}} |->
        bytes[a - SpriteAddr + 1]]

\* 00FE (64x32) and 00FF (128x64)
ModeInstrs == {254, 255}
\* 8220 (V2 := V2, no background), D235 and D230 (a background sprite)
BackgroundInstrs == {33312, 53813, 53808}
\* D015, D010, DF12 and D01F
DrawInstrs == {53269, 53264, 57106, 53279}
\* V0 and V1: on screen, near the right or bottom edge, and past it
DrawXs == {0, 60, 250}
DrawYs == {0, 30, 127}
\* V2 and V3: a background that the draws at (0, 0) and at the edges overlap
BackgroundAt == {<< 1, 1 >>, << 59, 30 >>}

\* the state after 60xx 61yy 62aa 63bb A300 and a jump to 0x200, where the
\* program is: mode; background; draw; the same draw; 00E0; 120A (a jump to
\* itself)
InitDraw ==
    /\ \E mode \in ModeInstrs, bg \in BackgroundInstrs, dr \in DrawInstrs, sp \in Sprites :
         InitRest(ProgramImage(<< mode, bg, dr, dr, 224, 4618 >>) @@ SpriteImage(sp))
    /\ \E vx \in DrawXs, vy \in DrawYs, at \in BackgroundAt :
         registers = [InitRegisters EXCEPT
                         !.i = SpriteAddr,
                         !.v = [r \in 0..15 |-> CASE r = 0 -> vx [] r = 1 -> vy
                                                  [] r = 2 -> at[1] [] r = 3 -> at[2]
                                                  [] OTHER -> 0]]
    /\ display = Display_new(64, 32, InitialScale)
    /\ overflow_checks \in BOOLEAN
    /\ last = NoLast
    /\ hist = << >>
    /\ rle = NoRle
    /\ loop = NoLoop

NextDraw == StepRecorded

SpecDraw == InitDraw /\ [][NextDraw]_vars

\* the machine before the latest recorded step, and the instruction of
\* that step
Prev == hist[Len(hist)]
PrevIns == decode(FetchWord(Prev))
Drew == Len(hist) >= 1 /\ PrevIns.op = 13

\* the geometry of a draw, from the instruction and the machine before it
SpriteCols(ins) == IF ins.n = 0 THEN 16 ELSE 8
SpriteRows(ins) == IF ins.n = 0 THEN 16 ELSE ins.n
SpriteBitAt(m, ins, r, c) ==
    IF ins.n = 0
    THEN BitOf(MemRead(m.memory, m.registers.i + 2 * r) * 256
               + MemRead(m.memory, m.registers.i + 2 * r + 1), 15 - c)
    ELSE BitOf(MemRead(m.memory, m.registers.i + r), 7 - c)
StartX(m, ins) == V(m, ins.x) % m.display.width
StartY(m, ins) == V(m, ins.y) % m.display.height

\* the sprite cells << row, column >> that fall on the screen
ClippedRect(m, ins) ==
    {q \in (0..(SpriteRows(ins) - 1)) \X (0..(SpriteCols(ins) - 1)) :
        /\ StartX(m, ins) + q[2] < m.display.width
        /\ StartY(m, ins) + q[1] < m.display.height}

\* pixels as indices y * width + x
CellPixel(m, ins, q) == (StartY(m, ins) + q[1]) * m.display.width + StartX(m, ins) + q[2]
RectPixels(m, ins) == {CellPixel(m, ins, q) : q \in ClippedRect(m, ins)}
LitPixels(m, ins) ==
    {CellPixel(m, ins, q) : q \in {c \in ClippedRect(m, ins) : SpriteBitAt(m, ins, c[1], c[2]) = 1}}

\* the pixels that are 1, and the pixels that differ between two
\* framebuffers of the same length
SetPixels(d) ==
    UNION {{(w - 1) * 32 + (31 - b) : b \in d.display[w]} : w \in 1..Len(d.display)}
ChangedPixels(old, new) ==
    UNION {{(w - 1) * 32 + (31 - b) :
                b \in (old.display[w] \ new.display[w]) \cup (new.display[w] \ old.display[w])} :
           w \in 1..Len(old.display)}

\* the two latest recorded steps ran the same draw instruction at the same
\* place: same I, same sprite bytes, same start coordinates
Before == hist[Len(hist) - 1]
DrewTwice ==
    /\ Len(hist) >= 2
    /\ PrevIns.op = 13
    /\ FetchWord(Before) = FetchWord(Prev)
    /\ Before.registers.i = Prev.registers.i
    /\ Before.memory = Prev.memory
    /\ StartX(Before, PrevIns) = StartX(Prev, PrevIns)
    /\ StartY(Before, PrevIns) = StartY(Prev, PrevIns)

\* C6: the same draw executed twice at the same place leaves the
\* framebuffer as it was before the first draw; when that framebuffer was
\* clear and the sprite has a set bit on the screen, the second draw sets
\* VF = 1.
C6_DrawTwiceRestores ==
    DrewTwice =>
        /\ display = Before.display
        /\ (SetPixels(Before.display) = {} /\ LitPixels(Before, PrevIns) # {})
               => registers.v[15] = 1

\* a draw repeated over a background it overlaps, clipped at the right edge
C6_Witness ==
    /\ DrewTwice
    /\ SetPixels(Before.display) # {}
    /\ LitPixels(Before, PrevIns) \cap SetPixels(Before.display) # {}
    /\ Prev.display # Before.display
    /\ StartX(Prev, PrevIns) + SpriteCols(PrevIns) > display.width
    /\ display = Before.display

\* C7: after Dxyn with n in 1..15 the pixels that changed are exactly the
\* on-screen pixels under a set sprite bit (each is its old value XOR 1,
\* every other pixel keeps its value); VF is 1 when one of them was set
\* before, in whatever row, and 0 otherwise; on a clear framebuffer the set
\* pixels afterwards are exactly the sprite's set bits and VF is 0.
C7_DrawXorsAndFlagsCollision ==
    (Drew /\ PrevIns.n \in 1..15) =>
        LET lit == LitPixels(Prev, PrevIns)
            was == SetPixels(Prev.display)
        IN /\ Len(display.display) = Len(Prev.display.display)
           /\ ChangedPixels(Prev.display, display) = lit
           /\ registers.v[15] = (IF lit \cap was # {} THEN 1 ELSE 0)
           /\ (was = {} => SetPixels(display) = lit /\ registers.v[15] = 0)

\* a collision in a row above the last row the sprite draws, which itself
\* collides with nothing
C7_Witness ==
    /\ Drew
    /\ PrevIns.n \in 2..15
    /\ LET lit == LitPixels(Prev, PrevIns)
           hit == lit \cap SetPixels(Prev.display)
       IN /\ hit # {}
          /\ \E p \in lit : \A q \in hit : q \div display.width < p \div display.width
    /\ registers.v[15] = 1

\* C8: Dxyn and Dxy0, in the 64x32 and in the 128x64 mode, draw the sprite
\* with its top left cell at (Vx mod width, Vy mod height); cells at
\* x >= width or y >= height are drawn nowhere, so the pixels that change
\* are the set sprite bits inside the clipped rectangle and nothing else.
C8_DrawClipsAtEdges ==
    Drew =>
        /\ ChangedPixels(Prev.display, display) = LitPixels(Prev, PrevIns)
        /\ ChangedPixels(Prev.display, display) \subseteq RectPixels(Prev, PrevIns)
        /\ display.width = Prev.display.width
        /\ display.height = Prev.display.height

\* Dxy0 in the 128x64 mode, cut at the right and at the bottom edge, with
\* set sprite bits in the part that is cut off
C8_Witness ==
    /\ Drew
    /\ PrevIns.n = 0
    /\ display.width = 128
    /\ StartX(Prev, PrevIns) = 122
    /\ StartY(Prev, PrevIns) = 63
    /\ SpriteBitAt(Prev, PrevIns, 0, 15) = 1
    /\ SpriteBitAt(Prev, PrevIns, 1, 0) = 1
    /\ ChangedPixels(Prev.display, display) # {}

\* C9: 00E0 makes every pixel 0, keeps width, height and the length of the
\* storage, advances PC by 2 and changes no other register, no memory byte
\* and no stack entry.
C9_ClearZeroesFramebuffer ==
    (Len(hist) >= 1 /\ FetchWord(Prev) = 224) =>
        /\ \A w \in 1..Len(display.display) : display.display[w] = {}
        /\ display.width = Prev.display.width
        /\ display.height = Prev.display.height
        /\ Len(display.display) = Len(Prev.display.display)
        /\ registers = [Prev.registers EXCEPT !.pc = @ + 2]
        /\ memory = Prev.memory
        /\ stack = Prev.stack
        /\ status = "running"

\* 00E0 on a 128x64 framebuffer that held set pixels
C9_Witness ==
    /\ Len(hist) >= 1
    /\ FetchWord(Prev) = 224
    /\ SetPixels(Prev.display) # {}
    /\ Prev.display.width = 128
    /\ last.raw = 224

--------------------------------------------------------------------------
(* Properties of SpecAlu: 8xy5 *)

\* C11: after 8xy5, for every x and y (F included), VF = 1 if old Vx >= old
\* Vy and 0 otherwise; for x # F the new Vx is (old Vx - old Vy) mod 256.
C11_SubSetsNoBorrow ==
    (Len(hist) >= 1 /\ InsOf(1).op = 8 /\ InsOf(1).n = 5) =>
        LET ins == InsOf(1)
            x == V(hist[1], ins.x)
            y == V(hist[1], ins.y)
        IN /\ V(After(1), 15) = (IF x >= y THEN 1 ELSE 0)
           /\ (ins.x # 15 => V(After(1), ins.x) = (x - y + 256) % 256)
           /\ \A r \in 0..14 : r # ins.x => V(After(1), r) = V(hist[1], r)

\* 8F15 with VF = 1 and V1 = 128: a borrow, and the flag register is the
\* destination
C11_Witness ==
    /\ Len(hist) >= 1
    /\ InsOf(1).raw = 36629
    /\ V(hist[1], 15) = 1
    /\ V(hist[1], 1) = 128
    /\ V(After(1), 15) = 0

--------------------------------------------------------------------------
(* SpecQuirk: one instruction whose effect a quirk selects, under every    *)
(* quirk configuration Chip8::new accepts                                  *)

QuirkSets ==
    [cosmac_shift : BOOLEAN, cosmac_fx1e : BOOLEAN, cosmac_fx55 : BOOLEAN,
     cosmac_bnnn : BOOLEAN]

\* B300, B1FF, BF05; F055, F255, FF55; F065, F265, FF65; 8016, 8F16,
\* 801E, 8F1E; F01E, FF1E
QuirkInstrs == {45824, 45567, 48901, 61525, 62037, 65365, 61541, 62053, 65381,
                32790, 36630, 32798, 36638, 61470, 65310}

\* register files: all different and small, and large with V0 = 255
QuirkRegs == {[r \in 0..15 |-> r + 1], [r \in 0..15 |-> 255 - 16 * r]}

\* values of I, and the 16 bytes stored there (none, or 7, 23, 39, ...)
QuirkIs == {768, 4088}
QuirkData(i) == {<< >>, [a \in i..(i + 15) |-> 16 * (a - i) + 7]}

\* the state after loads of V0..VF, Annn and a jump to the instruction,
\* which a jump to itself (1202) follows
InitQuirk ==
    /\ \E w \in QuirkInstrs, i \in QuirkIs :
         /\ \E data \in QuirkData(i), q \in QuirkSets :
              InitRestWith(ProgramImage(<< w, 4610 >>) @@ data, q)
         /\ \E v \in QuirkRegs : registers = [InitRegisters EXCEPT !.i = i, !.v = v]
    /\ display = Display_new(64, 32, InitialScale)
    /\ overflow_checks \in BOOLEAN
    /\ last = NoLast
    /\ hist = << >>
    /\ rle = NoRle
    /\ loop = NoLoop

NextQuirk == StepRecorded

SpecQuirk == InitQuirk /\ [][NextQuirk]_vars

\* C12: after Bnnn, PC = nnn + V0 when the quirk cosmac_bnnn is enabled,
\* whatever Vx holds, and PC = nnn + Vx (x the high nibble of nnn) when it
\* is disabled.
C12_JumpWithOffset ==
    (Len(hist) >= 1 /\ InsOf(1).op = 11) =>
        LET ins == InsOf(1)
            pre == hist[1]
        IN /\ After(1).status = "running"
           /\ After(1).registers.pc =
                 ins.nnn + (IF pre.quirks.cosmac_bnnn THEN V(pre, 0) ELSE V(pre, ins.x))

\* B300 with the quirk enabled, V0 = 255 and V3 = 207: PC = 0x3FF
C12_Witness ==
    /\ Len(hist) >= 1
    /\ InsOf(1).raw = 45824
    /\ hist[1].quirks.cosmac_bnnn
    /\ V(hist[1], 0) = 255
    /\ V(hist[1], 3) = 207
    /\ After(1).registers.pc = 1023

\* the bytes of memory outside i..(i + x) are the same in both machines
SameMemoryOutside(pre, post, i, x) ==
    \A a \in ((DOMAIN pre.memory) \cup (DOMAIN post.memory)) \ (i..(i + x)) :
        MemRead(post.memory, a) = MemRead(pre.memory, a)

\* C13: after Fx55 or Fx65, I = old I + x + 1 when the quirk cosmac_fx55 is
\* enabled and I = old I when it is disabled; Fx55 copies V0..Vx to
\* memory[old I .. old I + x] and Fx65 copies that memory to V0..Vx;
\* registers above Vx and memory outside the range are unchanged.
C13_DumpAndLoadRegisters ==
    (Len(hist) >= 1 /\ InsOf(1).op = 15 /\ InsOf(1).nn \in {85, 101}) =>
        LET ins == InsOf(1)
            pre == hist[1]
            post == After(1)
            i == pre.registers.i
        IN /\ post.status = "running"
           /\ post.registers.i = i + (IF pre.quirks.cosmac_fx55 THEN ins.x + 1 ELSE 0)
           /\ SameMemoryOutside(pre, post, i, ins.x)
           /\ \A r \in 0..15 : r > ins.x => V(post, r) = V(pre, r)
           /\ ins.nn = 85 =>
                 /\ \A k \in 0..ins.x : MemRead(post.memory, i + k) = V(pre, k)
                 /\ post.registers.v = pre.registers.v
           /\ ins.nn = 101 =>
                 /\ \A k \in 0..ins.x : V(post, k) = MemRead(pre.memory, i + k)
                 /\ post.memory = pre.memory

\* F265 with the quirk enabled over stored bytes 7, 23, 39, 55: V0..V2 are
\* loaded, V3 keeps its value, I advances by 3
C13_Witness ==
    /\ Len(hist) >= 1
    /\ InsOf(1).raw = 62053
    /\ hist[1].quirks.cosmac_fx55
    /\ MemRead(hist[1].memory, hist[1].registers.i + 3) = 55
    /\ V(hist[1], 3) = 4
    /\ After(1).registers.v[2] = 39
    /\ After(1).registers.v[3] = 4
    /\ After(1).registers.i = hist[1].registers.i + 3

--------------------------------------------------------------------------
(* SpecScroll: a display mode, two draws (one at the top, one at the       *)
(* bottom edge) and a scroll down by n rows                                *)

\* 00C0, 00C1, 00C3
ScrollInstrs == {192, 193, 195}
\* D015 and D01F at (V0, V1); D235 at (V2, V3)
ScrollTopDraws == {53269, 53279}
ScrollTopAt == {<< 0, 0 >>, << 3, 1 >>}
ScrollBottomAt == {<< 250, 126 >>, << 5, 127 >>}

\* the state after 60xx 61yy 62aa 63bb A300 and a jump to 0x200, where the
\* program is: mode; draw; D235; 00Cn; 1208 (a jump to itself)
InitScroll ==
    /\ \E mode \in ModeInstrs, dr \in ScrollTopDraws, sc \in ScrollInstrs, sp \in Sprites :
         InitRest(ProgramImage(<< mode, dr, 53813, sc, 4616 >>) @@ SpriteImage(sp))
    /\ \E top \in ScrollTopAt, bot \in ScrollBottomAt :
         registers = [InitRegisters EXCEPT
                         !.i = SpriteAddr,
                         !.v = [r \in 0..15 |-> CASE r = 0 -> top[1] [] r = 1 -> top[2]
                                                  [] r = 2 -> bot[1] [] r = 3 -> bot[2]
                                                  [] OTHER -> 0]]
    /\ display = Display_new(64, 32, InitialScale)
    /\ overflow_checks \in BOOLEAN
    /\ last = NoLast
    /\ hist = << >>
    /\ rle = NoRle
    /\ loop = NoLoop

NextScroll == StepRecorded

SpecScroll == InitScroll /\ [][NextScroll]_vars

\* the latest recorded step ran 00Cn
ScrolledDown == Len(hist) >= 1 /\ PrevIns.raw - PrevIns.n = 192

\* some pixel of row y is set
RowLit(d, y) == \E x \in 0..(d.width - 1) : get_pixel(d, x, y) = 1

\* C14: after 00Cn every pixel (x, y) with y >= n holds the old pixel
\* (x, y - n) and every pixel of rows 0..n-1 is 0, so the old last rows
\* come back in no row; width, height and storage length stay; for n = 1
\* this is one shift_down, and 00C0 changes nothing.
C14_ScrollDown ==
    ScrolledDown =>
        LET n == PrevIns.n
            old == Prev.display
        IN /\ display.width = old.width
           /\ display.height = old.height
           /\ Len(display.display) = Len(old.display)
           /\ \A y \in 0..(old.height - 1) : \A x \in 0..(old.width - 1) :
                 get_pixel(display, x, y) = (IF y >= n THEN get_pixel(old, x, y - n) ELSE 0)
           /\ n = 1 => display = shift_down(old)
           /\ n = 0 => display = old

\* 00C1 on a framebuffer whose top row and last row both hold set pixels:
\* row 0 is clear afterwards and row 1 holds what row 0 held
C14_Witness ==
    /\ ScrolledDown
    /\ PrevIns.n = 1
    /\ RowLit(Prev.display, 0)
    /\ RowLit(Prev.display, Prev.display.height - 1)
    /\ ~RowLit(display, 0)
    /\ RowLit(display, 1)

--------------------------------------------------------------------------
(* SpecStack: calls and returns in an order the random number generator   *)
(* picks, with the pending return addresses kept in hist                   *)

\* C001 (V0 := random & 1); 3000 (skip the call when V0 = 0); 2200 (call
\* 0x200); 00EE: the stack grows to its capacity and shrinks to empty
ProgCallReturn == << 49153, 12288, 8704, 238 >>

\* 2206 (call 0x206); 1202 (a jump to itself); 0000; at 0x206: C001; 3000;
\* 220E (call 0x20E); 00EE; at 0x20E: C001; 3000; 2206 (call 0x206); 00EE:
\* nested calls from three addresses
ProgNested == << 8710, 4610, 0, 49153, 12288, 8718, 238, 49153, 12288, 8710, 238 >>

InitStack ==
    /\ registers = InitRegisters
    /\ display = Display_new(64, 32, InitialScale)
    /\ \E prog \in {ProgCallReturn, ProgNested} : InitRest(ProgramImage(prog))
    /\ overflow_checks \in BOOLEAN
    /\ last = NoLast
    /\ hist = << >>
    /\ rle = NoRle
    /\ loop = NoLoop

\* Chip8::step; hist gains the address after a 2nnn and loses its last
\* entry on a 00EE
StepCounted ==
    /\ status = "running"
    /\ \E rnd \in RandVals : SetMachine(step(Machine, rnd))
    /\ last' = [op |-> "step", pc |-> registers.pc, raw |-> FetchWord(Machine)]
    /\ hist' = LET ins == decode(FetchWord(Machine))
               IN IF ins.op = 2 THEN Append(hist, (registers.pc + 2) % U16Mod)
                  ELSE IF ins.raw = 238 /\ hist # << >> THEN SubSeq(hist, 1, Len(hist) - 1)
                  ELSE hist
    /\ UNCHANGED <<rle, loop>>

NextStack == StepCounted

SpecStack == InitStack /\ [][NextStack]_vars

\* while the machine runs: SP is in -1..31, SP + 1 return addresses are
\* pending, and they are stack[0..SP]
StackInRange ==
    status = "running" =>
        /\ registers.sp \in -1..(StackSize - 1)
        /\ registers.sp = Len(hist) - 1
        /\ \A k \in 1..Len(hist) : stack[k - 1] = hist[k]

--------------------------------------------------------------------------
(* SpecRun: the loop of Chip8::run, one action per block of its body.      *)
(* Time is counted in units of 1/7 ms.                                     *)

\* cpu_target as main.rs passes it (1_428_571 ns) and timer_target (16 ms)
CpuPeriod == 10
TimerPeriod == 112

\* what Instant::now() may have advanced by since the iteration before
Delays == {0, 10, 112}

\* the events one poll_iter() may deliver
KeyDownEvent(key) == [type |-> "KeyDown", key |-> key]
KeyUpEvent(key) == [type |-> "KeyUp", key |-> key]
QuitEvent == [type |-> "Quit", key |-> "None"]
EventBatches ==
    {<< >>,
     << KeyDownEvent("KpPeriod") >>,
     << KeyDownEvent("KpEnter") >>,
     << KeyUpEvent("KpPeriod") >>,
     << KeyDownEvent("KpPeriod"), KeyUpEvent("KpPeriod") >>,
     << KeyDownEvent("KpPeriod"), KeyDownEvent("KpEnter") >>,
     << QuitEvent >>,
     << KeyDownEvent("KpPeriod"), QuitEvent >>}

\* event_loop with a fault: a quit event is passed over
RECURSIVE event_loop_noquit(_, _, _)
event_loop_noquit(kp, events, k) ==
    IF k > Len(events) THEN [quit |-> FALSE, keypad |-> kp]
    ELSE IF events[k].type = "Quit" THEN event_loop_noquit(kp, events, k + 1)
    ELSE IF events[k].type = "KeyDown"
    THEN event_loop_noquit(key_down(kp, events[k].key), events, k + 1)
    ELSE event_loop_noquit(key_up(kp, events[k].key), events, k + 1)

\* Display::event_loop on the events of one poll: [quit, keypad]
RECURSIVE event_loop(_, _, _)
event_loop(kp, events, k) ==
    IF k > Len(events) THEN [quit |-> FALSE, keypad |-> kp]
    ELSE IF events[k].type = "Quit" THEN [quit |-> TRUE, keypad |-> kp]
    ELSE IF events[k].type = "KeyDown" THEN event_loop(key_down(kp, events[k].key), events, k + 1)
    ELSE event_loop(key_up(kp, events[k].key), events, k + 1)

\* the key_down events of a key that event_loop sees in a batch
RECURSIVE DownsIn(_, _, _)
DownsIn(events, key, k) ==
    IF k > Len(events) \/ events[k].type = "Quit" THEN 0
    ELSE (IF events[k] = KeyDownEvent(key) THEN 1 ELSE 0) + DownsIn(events, key, k + 1)

\* 6001 (V0 := 1); F018 (sound := V0); 6002; F015 (delay := 2); 1208 (a
\* jump to itself)
ProgTimers == << 24577, 61464, 24578, 61461, 4616 >>

\* 6003; F015 (delay := 3); 00FD; 6006
ProgHalt == << 24579, 61461, 253, 24582 >>

\* the programs of the loop: timers, key waits and a 00FD
RunPrograms == {ProgTimers, ProgTwoWaits, ProgHalt}

\* run() entered: last_timer_tick is read first, last_cpu_tick after it
InitRun ==
    /\ \E prog \in RunPrograms : InitMachine(prog)
    /\ overflow_checks \in BOOLEAN
    /\ last = NoLast
    /\ hist = << >>
    /\ rle = NoRle
    /\ \E late \in {0, 1} :
         loop = [NoLoop EXCEPT !.pos = "cpu", !.now = late, !.start = late,
                               !.last_cpu_tick = late, !.last_timer_tick = 0]

\* cpu_advance with a fault: the CPU deadline restarts from now
cpu_advance_from_now(lp, now) ==
    [lp EXCEPT !.now = now, !.pos = "timer", !.last_cpu_tick = now, !.steps = @ + 1]

\* `last_cpu_tick = next_cpu_tick` (cpu.rs:485) after a step
cpu_advance(lp, now) ==
    [lp EXCEPT !.now = now, !.pos = "timer", !.last_cpu_tick = @ + CpuPeriod, !.steps = @ + 1]

\* `last_timer_tick = next_timer_tick` (cpu.rs:497) after the timer block
timer_advance(lp) ==
    [lp EXCEPT !.pos = "events", !.last_timer_tick = @ + TimerPeriod, !.ticks = @ + 1]

\* the top of the loop body (cpu.rs:478-486): now is read, and a step runs
\* when the CPU deadline has passed
RunCpu(dt) ==
    /\ status = "running"
    /\ loop.pos = "cpu"
    /\ loop.now + dt <= MaxNow
    /\ LET now == loop.now + dt
           next_cpu_tick == loop.last_cpu_tick + CpuPeriod
       IN IF now >= next_cpu_tick
          THEN \E rnd \in RandVals :
                 LET m == step(Machine, rnd)
                 IN /\ SetMachine(m)
                    /\ last' = [op |-> "step", pc |-> registers.pc, raw |-> FetchWord(Machine)]
                    /\ loop' = IF m.status = "panic" THEN [loop EXCEPT !.now = now]
                               ELSE cpu_advance(loop, now)
          ELSE /\ SetMachine(Machine)
               /\ last' = [op |-> "idle", pc |-> registers.pc, raw |-> 0]
               /\ loop' = [loop EXCEPT !.now = now, !.pos = "timer"]
    /\ UNCHANGED <<hist, rle>>

\* the timer block (cpu.rs:488-498), with the now the top of the body read
RunTimer ==
    /\ status = "running"
    /\ loop.pos = "timer"
    /\ LET next_timer_tick == loop.last_timer_tick + TimerPeriod
       IN IF loop.now >= next_timer_tick
          THEN /\ SetMachine(timer_tick(Machine))
               /\ last' = [op |-> "tick", pc |-> registers.pc, raw |-> 0]
               /\ loop' = timer_advance(loop)
          ELSE /\ SetMachine(Machine)
               /\ last' = [op |-> "idle", pc |-> registers.pc, raw |-> 0]
               /\ loop' = [loop EXCEPT !.pos = "events"]
    /\ UNCHANGED <<hist, rle>>

\* Display::event_loop (cpu.rs:501-503): a quit event ends run()
RunEvents(events) ==
    /\ status = "running"
    /\ loop.pos = "events"
    /\ loop.save_downs + loop.load_downs
         + DownsIn(events, "KpPeriod", 1) + DownsIn(events, "KpEnter", 1) <= MaxKeyDowns
    /\ LET r == event_loop(keypad, events, 1)
       IN /\ keypad' = r.keypad
          /\ loop' = [loop EXCEPT
                         !.pos = IF r.quit THEN "quit" ELSE "keys",
                         !.save_downs = @ + DownsIn(events, "KpPeriod", 1),
                         !.load_downs = @ + DownsIn(events, "KpEnter", 1),
                         !.save_since = @ + DownsIn(events, "KpPeriod", 1),
                         !.load_since = @ + DownsIn(events, "KpEnter", 1)]
    /\ last' = [op |-> "events", pc |-> registers.pc, raw |-> 0]
    /\ UNCHANGED <<registers, timers, stack, memory, display, quirks, overflow_checks,
                   files, status, hist, rle>>

\* the save and load keys (cpu.rs:504-510), then draw and yield_now
RunKeys ==
    /\ status = "running"
    /\ loop.pos = "keys"
    /\ LET save == check_key_down_and_reset(keypad, "KpPeriod")
           load == check_key_down_and_reset(save.keypad, "KpEnter")
       IN IF save.hit
          THEN /\ SetMachine([Machine EXCEPT
                                 !.keypad = save.keypad,
                                 !.files.savestate = save_state([Machine EXCEPT !.keypad = save.keypad])])
               /\ last' = [op |-> "save", pc |-> registers.pc, raw |-> 0]
               /\ loop' = [loop EXCEPT !.pos = "cpu", !.saves = @ + 1, !.save_since = 0]
          ELSE IF load.hit
          THEN /\ SetMachine(load_state([Machine EXCEPT !.keypad = load.keypad],
                                        files.savestate))
               /\ last' = [op |-> "load", pc |-> registers.pc, raw |-> 0]
               /\ loop' = [loop EXCEPT !.pos = "cpu", !.loads = @ + 1, !.load_since = 0]
          ELSE /\ SetMachine([Machine EXCEPT !.keypad = load.keypad])
               /\ last' = [op |-> "idle", pc |-> registers.pc, raw |-> 0]
               /\ loop' = [loop EXCEPT !.pos = "cpu"]
    /\ UNCHANGED <<hist, rle>>

\* SpecRun: time passes, and the only event is a quit
QuietBatches == {<< >>, << QuitEvent >>}

NextRun ==
    \/ \E dt \in Delays : RunCpu(dt)
    \/ RunTimer
    \/ \E events \in QuietBatches : RunEvents(events)
    \/ RunKeys

SpecRun == InitRun /\ [][NextRun]_vars

\* SpecKeys: the same loop with key events, the clock moving in whole
\* timer periods
NextKeys ==
    \/ \E dt \in {0, TimerPeriod} : RunCpu(dt)
    \/ RunTimer
    \/ \E events \in EventBatches : RunEvents(events)
    \/ RunKeys

SpecKeys == InitRun /\ [][NextKeys]_vars

--------------------------------------------------------------------------
(* Properties of SpecRun and SpecKeys *)

\* the CPU deadline is one period past last_cpu_tick
CpuDeadline == loop.last_cpu_tick + CpuPeriod

\* after k steps the CPU deadline is start + (k + 1) periods, and k periods
\* have passed
CpuOnSchedule ==
    /\ CpuDeadline = loop.start + (loop.steps + 1) * CpuPeriod
    /\ loop.steps * CpuPeriod <= loop.now - loop.start

\* C16: an iteration of run executes step() at most once, in its first
\* block and only when the now it read has reached the CPU deadline; the
\* deadline moves by exactly one period when a step ran and not at all
\* otherwise (it never restarts from now); so the CPU deadline is always
\* start + (k + 1) * period after k steps, and k * period <= now - start.
C16_OneStepPerDeadline ==
    /\ CpuOnSchedule
    /\ [][ /\ CpuOnSchedule'
           /\ loop.pos = "cpu" =>
                 LET due == loop'.now >= CpuDeadline
                 IN /\ loop'.now >= loop.now
                    /\ due => /\ \E rnd \in RandVals : Machine' = step(Machine, rnd)
                              /\ loop'.steps = loop.steps + 1
                              /\ CpuDeadline' = CpuDeadline + CpuPeriod
                    /\ ~due => /\ Machine' = Machine
                               /\ loop'.steps = loop.steps
                               /\ CpuDeadline' = CpuDeadline
           /\ loop.pos # "cpu" =>
                 /\ loop'.steps = loop.steps
                 /\ CpuDeadline' = CpuDeadline
                 /\ registers' = registers
                 /\ memory' = memory
                 /\ loop'.now = loop.now ]_vars

\* the clock jumped by a timer period and the loop catches up one step per
\* iteration: the third step, with its deadline still far behind now
C16_Witness ==
    /\ loop.pos = "timer"
    /\ last.op = "step"
    /\ loop.steps = 3
    /\ loop.now - loop.start >= TimerPeriod
    /\ CpuDeadline = loop.start + 4 * CpuPeriod
    /\ CpuDeadline < loop.now

\* C17: a timer tick decrements the delay timer and the sound timer by 1
\* each when nonzero and leaves a 0 at 0; the beep flag afterwards tells
\* whether the sound timer was nonzero before; the timer deadline moves by
\* exactly one period; registers, memory and stack are not touched.  With
\* the deadline not reached the block changes nothing.
C17_TimerTick ==
    [][ loop.pos = "timer" =>
          LET due == loop.now >= loop.last_timer_tick + TimerPeriod
          IN /\ due =>
                  /\ timers'.delay = (IF timers.delay > 0 THEN timers.delay - 1 ELSE 0)
                  /\ timers'.sound = (IF timers.sound > 0 THEN timers.sound - 1 ELSE 0)
                  /\ display'.beep = (timers.sound > 0)
                  /\ loop'.last_timer_tick = loop.last_timer_tick + TimerPeriod
                  /\ loop'.ticks = loop.ticks + 1
             /\ ~due =>
                  /\ timers' = timers
                  /\ display' = display
                  /\ loop'.last_timer_tick = loop.last_timer_tick
                  /\ loop'.ticks = loop.ticks
             /\ registers' = registers
             /\ memory' = memory
             /\ stack' = stack
             /\ [display' EXCEPT !.beep = display.beep] = display ]_vars

\* the tick after the sound timer reached 0: the delay timer is at 0 and
\* stays there, the beep flag falls
C17_Witness ==
    /\ last.op = "tick"
    /\ loop.ticks = 2
    /\ timers = [delay |-> 0, sound |-> 0]
    /\ ~display.beep
    /\ registers.v[0] = 2

\* C18: save_state (load_state) runs at most once for each key_down event
\* of the save (load) key: it runs only when such an event arrived since
\* it last ran, however many iterations pass in between.
C18_SaveLoadOncePerPress ==
    /\ loop.saves <= loop.save_downs /\ loop.loads <= loop.load_downs
    /\ [][ /\ loop'.saves \in {loop.saves, loop.saves + 1}
           /\ loop'.loads \in {loop.loads, loop.loads + 1}
           /\ loop'.saves > loop.saves => loop.save_since >= 1 /\ loop.pos = "keys"
           /\ loop'.loads > loop.loads => loop.load_since >= 1 /\ loop.pos = "keys"
           /\ loop'.saves <= loop'.save_downs
           /\ loop'.loads <= loop'.load_downs ]_vars

\* the save key went down once and iterations went by (time passed and
\* steps ran) after the one save it caused
C18_Witness ==
    /\ loop.save_downs = 1
    /\ loop.saves = 1
    /\ loop.save_since = 0
    /\ files.savestate # "none"
    /\ loop.pos = "keys"
    /\ loop.steps >= 3
    /\ last.op = "events"

--------------------------------------------------------------------------
(* SpecDisplay: three display instructions in any order                    *)

\* 00E0, 00FE, 00FF, 00C1 and D015, and words that are no opcode: 0000,
\* 01D1, 8018, E000 and F0FF
DisplayInstrs == {224, 254, 255, 193, 53269, 0, 465, 32792, 57344, 61695}
\* the first instruction: a mode or a draw
DisplayFirst == {254, 255, 53269}

\* the state after 603A 611D A300 (V0 = 58, V1 = 29: a draw cut at both
\* edges of the 64x32 screen) and a jump to 0x200, where the program is
\* three display instructions and 1206 (a jump to itself)
InitDisplay ==
    /\ \E a \in DisplayFirst, b \in DisplayInstrs, c \in DisplayInstrs :
         InitRest(ProgramImage(<< a, b, c, 4614 >>) @@ SpriteImage(SpriteBox))
    /\ registers = [InitRegisters EXCEPT
                       !.i = SpriteAddr,
                       !.v = [r \in 0..15 |-> CASE r = 0 -> 58 [] r = 1 -> 29 [] OTHER -> 0]]
    /\ display = Display_new(64, 32, InitialScale)
    /\ overflow_checks \in BOOLEAN
    /\ last = NoLast
    /\ hist = << >>
    /\ rle = NoRle
    /\ loop = NoLoop

NextDisplay == StepRecorded

SpecDisplay == InitDisplay /\ [][NextDisplay]_vars

\* C19: the storage holds ceil(width * height / 32) words and the
\* resolution is 64x32 or 128x64 in every state; after 00FE the resolution
\* is 64x32, after 00FF it is 128x64, and every pixel is 0.
C19_StorageMatchesResolution ==
    /\ << display.width, display.height >> \in {<< 64, 32 >>, << 128, 64 >>}
    /\ 32 * Len(display.display) >= display.width * display.height
    /\ 32 * (Len(display.display) - 1) < display.width * display.height
    /\ (Len(hist) >= 1 /\ PrevIns.raw \in {254, 255}) =>
          /\ display.width = (IF PrevIns.raw = 255 THEN 128 ELSE 64)
          /\ display.height = (IF PrevIns.raw = 255 THEN 64 ELSE 32)
          /\ \A w \in 1..Len(display.display) : display.display[w] = {}

\* 00FE on a 128x64 framebuffer that held set pixels
C19_Witness ==
    /\ Len(hist) >= 1
    /\ PrevIns.raw = 254
    /\ Prev.display.width = 128
    /\ Len(Prev.display.display) = 256
    /\ SetPixels(Prev.display) # {}
    /\ display.width = 64
    /\ Len(display.display) = 64

--------------------------------------------------------------------------
(* SpecWalk: programs that never jump back run PC, or I, to the end of     *)
(* memory                                                                  *)

\* the quirks with cosmac_fx55 enabled
QuirksFx55 == [DefaultQuirks EXCEPT !.cosmac_fx55 = TRUE]

\* a program of zero bytes under the default quirks (0000 is an unknown
\* instruction, which only prints), and AFFF FF55 1202 with the quirk
\* that makes FF55 add 16 to I
WalkRuns == {<< << >>, DefaultQuirks >>, << << 45055, 65365, 4610 >>, QuirksFx55 >>}

\* Chip8::new on main.rs's display
InitWalk ==
    /\ \E r \in WalkRuns : InitRestWith(ProgramImage(r[1]), r[2])
    /\ registers = InitRegisters
    /\ display = Display_new(64, 32, InitialScale)
    /\ overflow_checks \in BOOLEAN
    /\ last = NoLast
    /\ hist = << >>
    /\ rle = NoRle
    /\ loop = NoLoop

NextWalk == Step

SpecWalk == InitWalk /\ [][NextWalk]_vars

\* the instruction the next step fetches
NextIns == decode(FetchWord(Machine))

\* the last address the next step reads or writes through I: I + 2 for
\* Fx33, I + x for Fx55 and Fx65; 0 if it does neither
LastIAddress ==
    LET ins == NextIns
    IN CASE ins.op = 15 /\ ins.nn = 51 -> registers.i + 2
         [] ins.op = 15 /\ ins.nn \in {85, 101} -> registers.i + ins.x
         [] OTHER -> 0

\* C20 (as claimed): in every reachable state the process has not trapped,
\* the two bytes the next step fetches (at PC and PC + 1) are inside the
\* 65535 bytes of memory, and so are the bytes it reads or writes at I.
C20_AddressesInRange ==
    /\ status = "running"
    /\ registers.pc + 1 < MemSize
    /\ LastIAddress < MemSize

--------------------------------------------------------------------------
(* The shifts and Fx1E under SpecQuirk                                     *)

\* C21 (as claimed): after 8xy6 and 8xyE, with source = old Vy when
\* cosmac_shift is enabled and old Vx otherwise, VF is the bit shifted out
\* of the source (bit 0 for 8xy6, bit 7 for 8xyE) for every x, and for
\* x # F the new Vx is the source shifted by one bit, truncated to 8 bits.
C21_ShiftSetsFlag ==
    (Len(hist) >= 1 /\ InsOf(1).op = 8 /\ InsOf(1).n \in {6, 14}) =>
        LET ins == InsOf(1)
            old == hist[1]
            source == IF old.quirks.cosmac_shift THEN V(old, ins.y) ELSE V(old, ins.x)
        IN /\ V(After(1), 15) = (IF ins.n = 6 THEN source % 2 ELSE source \div 128)
           /\ (ins.x # 15 =>
                  V(After(1), ins.x) = (IF ins.n = 6 THEN source \div 2 ELSE (source * 2) % 256))

\* C22 (as claimed): after Fx1E, I = (old I + Vx) mod 0x1000; VF = 1 when
\* old I + Vx > 0xFFF and cosmac_fx1e is disabled, and VF is as before
\* when cosmac_fx1e is enabled.
C22_AddToIndexWraps ==
    (Len(hist) >= 1 /\ InsOf(1).op = 15 /\ InsOf(1).nn = 30) =>
        LET ins == InsOf(1)
            old == hist[1]
            sum == old.registers.i + V(old, ins.x)
        IN /\ After(1).registers.i = sum % 4096
           /\ After(1).registers.i <= 4095
           /\ ((sum > 4095 /\ ~old.quirks.cosmac_fx1e) => V(After(1), 15) = 1)
           /\ (old.quirks.cosmac_fx1e => V(After(1), 15) = V(old, 15))

--------------------------------------------------------------------------
(* Words that are no opcode, under SpecDisplay                             *)

\* the words C23 lists: 0nnn other than 00E0, 00EE, 00Cn, 00Dn and
\* 00FB..00FF; 8xyN with N in 8..D or F; ExNN other than Ex9E and ExA1;
\* FxNN with NN none of 07, 0A, 15, 18, 1E, 29, 30, 33, 55, 65, 75, 85
UnknownWord(ins) ==
    \/ /\ ins.op = 0
       /\ ins.raw \notin ({224, 238} \cup (251..255) \cup (192..223))
    \/ ins.op = 8 /\ ins.n \in ((8..13) \cup {15})
    \/ ins.op = 14 /\ ins.nn \notin {158, 161}
    \/ ins.op = 15 /\ ins.nn \notin {7, 10, 21, 24, 30, 41, 48, 51, 85, 101, 117, 133}

\* C23 (as claimed): a step on a word that is no opcode advances PC by 2
\* and changes nothing else: registers, I, SP, stack, timers, memory and
\* framebuffer are as before, and the machine has not failed.
C23_UnknownWordIsNoOp ==
    (Len(hist) >= 1 /\ UnknownWord(PrevIns)) =>
        Machine = [Prev EXCEPT !.registers.pc = @ + 2]

--------------------------------------------------------------------------
(* Key waits, under Spec                                                   *)

\* C24 (as claimed): one key_down releases at most one Fx0A wait: when the
\* last operation was a step on an Fx0A that advanced (no key_down since),
\* a step on a following Fx0A stalls, whether or not the key is still held.
C24_OnePressOneWait ==
    [][ (/\ Step
         /\ IsFx0A(FetchWord(Machine))
         /\ last.op = "step"
         /\ IsFx0A(last.raw)
         /\ last.pc # registers.pc) => registers'.pc = registers.pc ]_vars

--------------------------------------------------------------------------
(* The end of run, under SpecKeys                                          *)

\* the batch holds a quit event
QuitIn(events) == \E k \in 1..Len(events) : events[k].type = "Quit"

\* the next step would stall: PC is at an Fx0A and no new key press is
\* flagged, or PC is at a 00FD
Stalled ==
    \/ IsFx0A(FetchWord(Machine)) /\ ~keypad.new_key_pressed
    \/ FetchWord(Machine) = 253

\* C25: an event_loop call that meets a quit event ends run in that
\* iteration, and nothing happens after run has ended (no step, timer
\* tick, save_state or load_state); wherever the CPU stands, stalled or
\* not, the event polling of the iteration can observe a quit.
C25_QuitEndsRun ==
    /\ []((status = "running" /\ loop.pos = "events") => ENABLED RunEvents(<< QuitEvent >>))
    /\ [][ /\ loop.pos # "quit"
           /\ \A events \in EventBatches :
                (QuitIn(events) /\ RunEvents(events)) =>
                    /\ loop'.pos = "quit"
                    /\ Machine' = [Machine EXCEPT !.keypad = keypad'] ]_vars

\* run ended on a quit that came after a save key in the same batch, while
\* the CPU was stalled on an Fx0A it had stepped on at least twice: nothing
\* was saved
C25_Witness ==
    /\ loop.pos = "quit"
    /\ Stalled
    /\ IsFx0A(FetchWord(Machine))
    /\ loop.steps >= 2
    /\ keypad.last_key = "KpPeriod"
    /\ loop.save_downs = 1
    /\ loop.saves = 0
    /\ files.savestate = "none"

--------------------------------------------------------------------------
(* Call and return, under SpecStack                                        *)

\* C26: a 2nnn at address a with fewer than 32 pending return addresses
\* sets PC to nnn and pushes a + 2; a 00EE with a pending return address
\* sets PC to the address after the matching call (the last pending one)
\* and SP to what it was before that call: SP + 1 is the number of pending
\* return addresses before and after every step, so returns come in
\* last-in-first-out order.
C26_CallAndReturn ==
    /\ [](status = "running" => registers.sp = Len(hist) - 1)
    /\ [][ StepCounted =>
             LET ins == decode(FetchWord(Machine))
             IN /\ (ins.op = 2 /\ Len(hist) < StackSize) =>
                      /\ status' = "running"
                      /\ registers'.pc = ins.nnn
                      /\ registers'.sp = registers.sp + 1
                      /\ stack'[registers'.sp] = registers.pc + 2
                      /\ hist' = Append(hist, registers.pc + 2)
                /\ (ins.raw = 238 /\ hist # << >>) =>
                      /\ status' = "running"
                      /\ registers'.pc = hist[Len(hist)]
                      /\ registers'.sp = registers.sp - 1
                      /\ hist' = SubSeq(hist, 1, Len(hist) - 1) ]_vars

\* the return of a nested call: the call at 0x212 has returned to 0x214
\* while the calls at 0x200 and 0x20A are pending
C26_Witness ==
    /\ status = "running"
    /\ last.raw = 238
    /\ registers.pc = 532
    /\ hist = << 514, 524 >>
    /\ registers.sp = 1

--------------------------------------------------------------------------
(* 00FD, under SpecRun                                                     *)

\* C27: a step on a 00FD at address a leaves PC at a, and from then on
\* nothing changes registers, I, SP, stack, memory or framebuffer: every
\* block of the loop (a step on the 00FD again, a timer tick, the event
\* polling) leaves them as they are, and the machine keeps running.
C27_HaltHolds ==
    [][ (status = "running" /\ FetchWord(Machine) = 253) =>
            /\ status' = "running"
            /\ registers' = registers
            /\ stack' = stack
            /\ memory' = memory
            /\ display'.display = display.display
            /\ display'.width = display.width
            /\ display'.height = display.height
            /\ FetchWord(Machine)' = 253 ]_vars

\* the 00FD at 0x204 was stepped on at least twice (after 6003 and F015),
\* and the delay timer has gone on counting: from 3 to 2
C27_Witness ==
    /\ status = "running"
    /\ last = [op |-> "step", pc |-> 516, raw |-> 253]
    /\ registers.pc = 516
    /\ loop.steps >= 4
    /\ registers.v[0] = 3
    /\ timers.delay = 2

--------------------------------------------------------------------------
(* SpecBcd: Fx33 on every byte                                             *)

\* F033 and FF33
BcdInstrs == {61491, 65331}

\* the state after a load of Vx, Annn and a jump to the instruction, which
\* a jump to itself (1202) follows; the five bytes from I - 1 on hold 170
InitBcd ==
    /\ \E w \in BcdInstrs, i \in QuirkIs, value \in 0..255 :
         /\ InitRest(ProgramImage(<< w, 4610 >>) @@ [a \in (i - 1)..(i + 3) |-> 170])
         /\ registers = [InitRegisters EXCEPT
                            !.i = i,
                            !.v = [r \in 0..15 |-> IF r = decode(w).x THEN value ELSE r + 1]]
    /\ display = Display_new(64, 32, InitialScale)
    /\ overflow_checks \in BOOLEAN
    /\ last = NoLast
    /\ hist = << >>
    /\ rle = NoRle
    /\ loop = NoLoop

NextBcd == StepRecorded

SpecBcd == InitBcd /\ [][NextBcd]_vars

\* C28: after Fx33 the bytes at I, I + 1 and I + 2 are the hundreds, tens
\* and units of Vx, each a decimal digit, so that they spell Vx; I, the
\* registers and every other memory byte are as before.
C28_BcdDigits ==
    (Len(hist) >= 1 /\ InsOf(1).op = 15 /\ InsOf(1).nn = 51) =>
        LET old == hist[1]
            new == After(1)
            v == V(old, InsOf(1).x)
            i == old.registers.i
            byte(k) == MemRead(new.memory, i + k)
        IN /\ new.status = "running"
           /\ byte(0) = v \div 100
           /\ byte(1) = (v \div 10) % 10
           /\ byte(2) = v % 10
           /\ \A k \in 0..2 : byte(k) \in 0..9
           /\ 100 * byte(0) + 10 * byte(1) + byte(2) = v
           /\ new.registers = [old.registers EXCEPT !.pc = @ + 2]
           /\ \A a \in ((DOMAIN old.memory) \cup (DOMAIN new.memory)) \ (i..(i + 2)) :
                MemRead(new.memory, a) = MemRead(old.memory, a)

\* F033 with V0 = 207 has written 2, 0, 7 over three of the bytes that
\* held 170, and the bytes around them still hold 170
C28_Witness ==
    /\ Len(hist) >= 1
    /\ InsOf(1).raw = 61491
    /\ V(hist[1], 0) = 207
    /\ LET i == hist[1].registers.i
       IN /\ MemRead(hist[1].memory, i + 1) = 170
          /\ MemRead(After(1).memory, i) = 2
          /\ MemRead(After(1).memory, i + 1) = 0
          /\ MemRead(After(1).memory, i + 2) = 7
          /\ MemRead(After(1).memory, i - 1) = 170
          /\ MemRead(After(1).memory, i + 3) = 170

--------------------------------------------------------------------------
(* The keypad, under Spec                                                  *)

\* C29: in every state new_key_pressed implies that some keypad entry is
\* true, and a key_down of an unmapped key leaves new_key_pressed false,
\* whatever keys are held.
C29_FlagImpliesKeyHeld ==
    /\ [](keypad.new_key_pressed => \E k \in 0..15 : keypad.keypad[k])
    /\ [][ \A key \in KeyEvents :
             (~IsMapped(key) /\ KeyDown(key)) => ~keypad'.new_key_pressed ]_vars

\* Num1 and Q were pressed, Q was released (the flag stayed), and then the
\* save key went down: the flag is false while Num1 is held
C29_Witness ==
    /\ keypad.keypad[1]
    /\ ~keypad.keypad[4]
    /\ keypad.last_key = "KpPeriod"
    /\ ~keypad.new_key_pressed


==========================================================================
